---- MODULE Spec2Model ----
(***************************************************************************)
(* The MakerBot Customizer linter of scripts/customizer_lint.py: the       *)
(* annotation classifier (parse_annotation and the PATTERNS regexes), the  *)
(* value classifier (get_value_type) and the top-level walk of lint_file.  *)
(*                                                                         *)
(* Text is a sequence of one-character strings, so that the regular        *)
(* expressions of PATTERNS are computed position by position.              *)
(***************************************************************************)
EXTENDS Integers, Sequences, FiniteSets, TLC

(***************************************************************************)
(* Bounds of the model.                                                    *)
(***************************************************************************)
\* longest source file, in lines, written with any of SourceLines
MaxLines == 2
\* longest source file, in lines, written with CoreLines only
MaxCoreLines == 3
\* longest annotation string enumerated character by character
MaxAnnLen == 4
\* most colon-separated numeric tokens in a generated slider-shaped string
MaxToks == 4
\* most calls of lint_file in one run of main, when several files are linted
MaxCalls == 3
\* longest file, in lines, when several files are linted
MaxRepeatLines == 1
\* most paths handed to an entry point together with its options
MaxCliPaths == 2
\* most elements of a list default
MaxListLen == 2
\* most lines of each of two files linted in one run
MaxPairLines == 2
\* most .scad files below base_path
MaxFiles == 3

(***************************************************************************)
(* Characters and text helpers.                                            *)
(***************************************************************************)
Digits == {"0", "1", "2", "3", "4", "5", "6", "7", "8", "9"}
Whitespace == {" "}

\* a failed regex match, where a match yields its (never empty) group 1
NoMatch == <<>>

\* s[a..b] as a sequence (empty when b < a)
Slice(s, a, b) == [k \in 1..(b - a + 1) |-> s[a + k - 1]]

\* str.strip(): drop leading and trailing whitespace
RECURSIVE LStrip(_)
LStrip(s) ==
    IF s # <<>> /\ s[1] \in Whitespace THEN LStrip(Tail(s)) ELSE s

RECURSIVE RStrip(_)
RStrip(s) ==
    IF s # <<>> /\ s[Len(s)] \in Whitespace
    THEN RStrip(Slice(s, 1, Len(s) - 1)) ELSE s

Strip(s) == RStrip(LStrip(s))

\* the position reached from p by a greedy \s* (Len(s)+1 at the end of s)
RECURSIVE SkipWs(_, _)
SkipWs(s, p) ==
    IF p <= Len(s) /\ s[p] \in Whitespace THEN SkipWs(s, p + 1) ELSE p

\* the position reached from p by a greedy \d*
RECURSIVE SkipDigits(_, _)
SkipDigits(s, p) ==
    IF p <= Len(s) /\ s[p] \in Digits THEN SkipDigits(s, p + 1) ELSE p

\* the position reached from p by a greedy [^\]]*
RECURSIVE SkipNotClose(_, _)
SkipNotClose(s, p) ==
    IF p <= Len(s) /\ s[p] # "]" THEN SkipNotClose(s, p + 1) ELSE p

\* the position reached from p by a greedy [^\[\]]*
RECURSIVE SkipNotBracket(_, _)
SkipNotBracket(s, p) ==
    IF p <= Len(s) /\ s[p] \notin {"[", "]"} THEN SkipNotBracket(s, p + 1) ELSE p

\* s has the literal lit at position p
HasAt(s, p, lit) ==
    /\ p >= 1
    /\ p + Len(lit) - 1 <= Len(s)
    /\ \A k \in 1..Len(lit) : s[p + k - 1] = lit[k]

(***************************************************************************)
(* PATTERNS (customizer_lint.py lines 48-72).  Each matcher follows its    *)
(* regex left to right; every quantified class is followed by a character  *)
(* outside the class (or by the end anchor), so the greedy scan is the only *)
(* way the regex can match.                                                *)
(***************************************************************************)

\* -?\d+(?:\.\d+)?  from p: the set of positions where the token may end
NumTokEnds(s, p) ==
    LET a == IF p <= Len(s) /\ s[p] = "-" THEN p + 1 ELSE p
        b == SkipDigits(s, a)
        \* \d+ may stop at any position after at least one digit
        ints == (a + 1)..b
        fracs == UNION { IF HasAt(s, q, <<".">>) /\ SkipDigits(s, q + 1) > q + 1
                         THEN (q + 2)..SkipDigits(s, q + 1)
                         ELSE {} : q \in ints }
    IN ints \cup fracs

\* the slider regex with {0,3} for {0,2}: a fourth token passes
PATTERNS_slider_FourTokens(s) ==
    LET one == IF HasAt(s, 1, <<"[">>) THEN NumTokEnds(s, 2) ELSE {}
        more(E) == UNION { IF HasAt(s, q, <<":">>) THEN NumTokEnds(s, q + 1) ELSE {}
                           : q \in E }
        two == more(one)
        three == more(two)
        four == more(three)
    IN \E q \in one \cup two \cup three \cup four : q = Len(s) /\ s[q] = "]"

\* "slider": ^\[(-?\d+(?:\.\d+)?(?::-?\d+(?:\.\d+)?){0,2})\]$
PATTERNS_slider(s) ==
    LET one == IF HasAt(s, 1, <<"[">>) THEN NumTokEnds(s, 2) ELSE {}
        more(E) == UNION { IF HasAt(s, q, <<":">>) THEN NumTokEnds(s, q + 1) ELSE {}
                           : q \in E }
        two == more(one)
        three == more(two)
    IN \E q \in one \cup two \cup three : q = Len(s) /\ s[q] = "]"

\* "dropdown": ^\[([^\[\]]+(?:,[^\[\]]+)*)\]$
\* a comma is itself in [^\[\]], so the first class may take the whole content
PATTERNS_dropdown(s) ==
    /\ HasAt(s, 1, <<"[">>)
    /\ LET q == SkipNotBracket(s, 2)
       IN /\ q > 2
          /\ q = Len(s)
          /\ s[q] = "]"

\* ^\[<keyword>:\d+x\d+\]$
KeywordForm(s, keyword) ==
    /\ HasAt(s, 1, <<"[">> \o keyword \o <<":">>)
    /\ LET a == Len(keyword) + 3
           b == SkipDigits(s, a)
       IN /\ b > a
          /\ HasAt(s, b, <<"x">>)
          /\ LET c == SkipDigits(s, b + 1)
             IN /\ c > b + 1
                /\ c = Len(s)
                /\ s[c] = "]"

KwImageSurface == <<"i","m","a","g","e","_","s","u","r","f","a","c","e">>
KwImageArray == <<"i","m","a","g","e","_","a","r","r","a","y">>
KwDrawPolygon == <<"d","r","a","w","_","p","o","l","y","g","o","n">>
KwPreview == <<"p","r","e","v","i","e","w">>

\* "image_surface": ^\[image_surface:\d+x\d+\]$
PATTERNS_image_surface(s) == KeywordForm(s, KwImageSurface)

\* "image_array": ^\[image_array:\d+x\d+\]$
PATTERNS_image_array(s) == KeywordForm(s, KwImageArray)

\* "draw_polygon": ^\[draw_polygon:\d+x\d+\]$
PATTERNS_draw_polygon(s) == KeywordForm(s, KwDrawPolygon)

\* "tab_decl": ^\s*/\*\s*\[([^\]]+)\]\s*\*/\s*$   (match): group 1 or NoMatch
PATTERNS_tab_decl(s) ==
    LET a == SkipWs(s, 1)
        b == SkipWs(s, a + 2)
        c == SkipNotClose(s, b + 1)
        d == SkipWs(s, c + 1)
        e == SkipWs(s, d + 2)
    IN IF /\ HasAt(s, a, <<"/", "*">>)
          /\ HasAt(s, b, <<"[">>)
          /\ c > b + 1
          /\ HasAt(s, c, <<"]">>)
          /\ HasAt(s, d, <<"*", "/">>)
          /\ e = Len(s) + 1
       THEN Slice(s, b + 1, c - 1)
       ELSE NoMatch

\* "preview": ^\s*//\s*preview\[   (match)
PATTERNS_preview(s) ==
    LET a == SkipWs(s, 1)
        b == SkipWs(s, a + 2)
    IN /\ HasAt(s, a, <<"/", "/">>)
       /\ HasAt(s, b, KwPreview \o <<"[">>)

\* //\s*(\[[^\]]+\])\s*$ tried at position p: group 1 or NoMatch
AnnotationAt(s, p) ==
    LET b == SkipWs(s, p + 2)
        c == SkipNotClose(s, b + 1)
        d == SkipWs(s, c + 1)
    IN IF /\ HasAt(s, p, <<"/", "/">>)
          /\ HasAt(s, b, <<"[">>)
          /\ c > b + 1
          /\ HasAt(s, c, <<"]">>)
          /\ d = Len(s) + 1
       THEN Slice(s, b, c)
       ELSE NoMatch

\* "annotation_comment": //\s*(\[[^\]]+\])\s*$   (search): group 1 of the
\* leftmost match, or NoMatch
PATTERNS_annotation_comment(s) ==
    LET starts == {p \in 1..Len(s) : AnnotationAt(s, p) # NoMatch}
    IN IF starts = {} THEN NoMatch
       ELSE AnnotationAt(s, CHOOSE p \in starts : \A q \in starts : p <= q)

(***************************************************************************)
(* parse_annotation (lines 81-117): (annotation_type, is_valid)            *)
(***************************************************************************)
\* parse_annotation with the dropdown test moved before the keyword tests
parse_annotation_DropdownFirst(annotation) ==
    LET a == Strip(annotation)
    IN IF a = <<>> THEN <<"none", TRUE>>
       ELSE IF PATTERNS_slider(a) THEN <<"slider", TRUE>>
       ELSE IF PATTERNS_dropdown(a) THEN <<"dropdown", TRUE>>
       ELSE IF PATTERNS_image_surface(a) THEN <<"image_surface", TRUE>>
       ELSE IF PATTERNS_image_array(a) THEN <<"image_array", TRUE>>
       ELSE IF PATTERNS_draw_polygon(a) THEN <<"draw_polygon", TRUE>>
       ELSE IF a[1] = "[" THEN <<"unknown", FALSE>>
       ELSE <<"none", TRUE>>

parse_annotation(annotation) ==
    LET a == Strip(annotation)
    IN IF a = <<>> THEN <<"none", TRUE>>
       ELSE IF PATTERNS_slider(a) THEN <<"slider", TRUE>>
       ELSE IF PATTERNS_image_surface(a) THEN <<"image_surface", TRUE>>
       ELSE IF PATTERNS_image_array(a) THEN <<"image_array", TRUE>>
       ELSE IF PATTERNS_draw_polygon(a) THEN <<"draw_polygon", TRUE>>
       ELSE IF PATTERNS_dropdown(a) THEN <<"dropdown", TRUE>>
       ELSE IF a[1] = "[" THEN <<"unknown", FALSE>>
       ELSE <<"none", TRUE>>

(***************************************************************************)
(* Syntax-tree nodes, as tree_sitter hands them to the linter: a type, the *)
(* node's text and its children.  A top-level node also carries the row    *)
(* (0-indexed line) on which it starts.                                    *)
(***************************************************************************)
Node(type, text, children) == [type |-> type, text |-> text, children |-> children]
Leaf(type, text) == Node(type, text, <<>>)
TopNode(n, row) ==
    [type |-> n.type, text |-> n.text, children |-> n.children, row |-> row]

Tok(c) == Leaf(c, <<c>>)

TxtRadius == <<"r","a","d","i","u","s">>
TxtScale == <<"s","c","a","l","e">>
TxtFn == <<"f","n">>
TxtHidden == <<"H","i","d","d","e","n">>
TxtSize == <<"S","i","z","e">>

Identifier(name) == Leaf("identifier", name)
\* $fn: the grammar's special_variable is '$' followed by an identifier
SpecialVariable(name) ==
    Node("special_variable", <<"$">> \o name, <<Tok("$"), Identifier(name)>>)
Integer(text) == Leaf("integer", text)
Float(text) == Leaf("float", text)
String(text) == Leaf("string", text)
Boolean(text) == Leaf("boolean", text)
BinaryExpression(l, op, r) ==
    Node("binary_expression", l.text \o <<op>> \o r.text, <<l, Tok(op), r>>)
UnaryExpression(op, e) == Node("unary_expression", <<op>> \o e.text, <<Tok(op), e>>)
FunctionCall(name) ==
    Node("function_call", name \o <<"(", ")">>, <<Identifier(name), Tok("("), Tok(")")>>)
TernaryExpression(c, a, b) ==
    Node("ternary_expression", c.text \o <<"?">> \o a.text \o <<":">> \o b.text,
         <<c, Tok("?"), a, Tok(":"), b>>)

\* [e1, e2, ...]: the brackets and commas are children of the list node too
RECURSIVE ListCells(_)
ListCells(elems) ==
    IF elems = <<>> THEN <<>>
    ELSE IF Len(elems) = 1 THEN <<elems[1]>>
    ELSE <<elems[1], Tok(",")>> \o ListCells(Tail(elems))

RECURSIVE TextOf(_)
TextOf(nodes) ==
    IF nodes = <<>> THEN <<>> ELSE nodes[1].text \o TextOf(Tail(nodes))

List(elems) ==
    LET kids == <<Tok("[")>> \o ListCells(elems) \o <<Tok("]")>>
    IN Node("list", TextOf(kids), kids)

\* name = value  and  name = value;
Assignment(left, value) ==
    Node("assignment", left.text \o <<"=">> \o value.text, <<left, Tok("="), value>>)
VarDeclaration(left, value) ==
    LET a == Assignment(left, value)
    IN Node("var_declaration", a.text \o <<";">>, <<a, Tok(";")>>)

(***************************************************************************)
(* get_value_type (lines 120-166): (value_type, is_computed, reason)       *)
(***************************************************************************)
ReasonListReference == "list contains variable reference"
ReasonListComputed == "list contains computed expression"
ReasonComputed == "computed expression won't appear in Customizer UI"
ReasonReference == "variable reference won't appear in Customizer UI"
ReasonTernary == "ternary expression won't appear in Customizer UI"
ReasonCall == "function call won't appear in Customizer UI"

\* the for loop over node.children of a list (lines 140-145), from child k on
RECURSIVE ListScan(_, _)
ListScan(children, k) ==
    IF k > Len(children) THEN <<"list", FALSE, "">>
    ELSE IF children[k].type = "identifier"
         THEN <<"list", TRUE, ReasonListReference>>
    ELSE IF children[k].type = "binary_expression"
         THEN <<"list", TRUE, ReasonListComputed>>
    ELSE ListScan(children, k + 1)

get_value_type(node) ==
    IF node.type \in {"integer", "float"} THEN <<"number", FALSE, "">>
    ELSE IF node.type = "string" THEN <<"string", FALSE, "">>
    ELSE IF node.type = "boolean" THEN <<"boolean", FALSE, "">>
    ELSE IF node.type = "list" THEN ListScan(node.children, 1)
    ELSE IF node.type = "binary_expression" THEN <<"expression", TRUE, ReasonComputed>>
    ELSE IF node.type = "unary_expression"
         THEN IF /\ node.children # <<>>
                 /\ node.children[Len(node.children)].type \in {"integer", "float"}
              THEN <<"number", FALSE, "">>
              ELSE <<"expression", TRUE, ReasonComputed>>
    ELSE IF node.type = "identifier" THEN <<"reference", TRUE, ReasonReference>>
    ELSE IF node.type = "ternary_expression" THEN <<"expression", TRUE, ReasonTernary>>
    ELSE IF node.type = "function_call" THEN <<"expression", TRUE, ReasonCall>>
    ELSE <<"unknown", FALSE, "">>

(***************************************************************************)
(* Source files.  A file is a sequence of lines and a line is the sequence *)
(* of top-level nodes that start on it: none for a blank line, two for a   *)
(* declaration with a trailing comment.                                    *)
(***************************************************************************)
CmtTabSize == <<"/","*"," ","[">> \o TxtSize \o <<"]"," ","*","/">>
CmtTabHidden == <<"/","*"," ","[">> \o TxtHidden \o <<"]"," ","*","/">>
CmtNote == <<"/","*"," ","n","o","t","e"," ","*","/">>
CmtDescription == <<"/","/"," ","R","a","d","i","u","s">>
CmtPreview == <<"/","/"," ">> \o KwPreview \o <<"[","v","i","e","w",":","s","o","u","t","h","]">>
CmtSlider == <<"/","/"," ","[","1",":","2","0","]">>
CmtWord == <<"/","/"," ","[","a","b","c","]">>
CmtNested == <<"/","/"," ","[","[","1",":","2","0","]">>

BlockComment(text) == Leaf("block_comment", text)
LineComment(text) == Leaf("line_comment", text)
ModuleItem == Leaf("module_item", <<"m","o","d","u","l","e"," ","m","(",")","{","}">>)
FunctionItem ==
    Leaf("function_item", <<"f","u","n","c","t","i","o","n"," ","f","(",")","=","1",";">>)
\* a top-level statement that is none of the above, e.g. cube(5);
OtherItem == Leaf("transform_chain", <<"c","u","b","e","(","5",")",";">>)

Radius == Identifier(TxtRadius)
Scale == Identifier(TxtScale)
Fn == SpecialVariable(TxtFn)
Five == Integer(<<"5">>)
Fifty == Integer(<<"5","0">>)
TenTimesScale == BinaryExpression(Integer(<<"1","0">>), "*", Scale)

BlankLine == <<>>

SourceLines ==
    { BlankLine,
      <<ModuleItem>>,
      <<FunctionItem>>,
      <<OtherItem>>,
      <<BlockComment(CmtTabSize)>>,
      <<BlockComment(CmtTabHidden)>>,
      <<BlockComment(CmtNote)>>,
      <<LineComment(CmtDescription)>>,
      <<LineComment(CmtPreview)>>,
      <<LineComment(CmtSlider)>>,
      <<VarDeclaration(Radius, Five)>>,
      <<VarDeclaration(Radius, Five), LineComment(CmtSlider)>>,
      <<VarDeclaration(Radius, Five), LineComment(CmtWord)>>,
      <<VarDeclaration(Radius, Five), LineComment(CmtNested)>>,
      <<VarDeclaration(Radius, TenTimesScale)>>,
      <<VarDeclaration(Radius, TenTimesScale), LineComment(CmtSlider)>>,
      <<VarDeclaration(Radius, Scale)>>,
      <<VarDeclaration(Radius, Scale), LineComment(CmtSlider)>>,
      <<VarDeclaration(Fn, Fifty)>>,
      <<VarDeclaration(Fn, Scale)>>,
      <<VarDeclaration(Fn, Scale), LineComment(CmtNested)>> }

SeqsUpTo(S, n) == UNION { [1..k -> S] : k \in 0..n }

Readable(lines) == [readable |-> TRUE, lines |-> lines]
Unreadable == [readable |-> FALSE, lines |-> <<>>]

\* the lines that the longer files are written with
CoreLines ==
    { BlankLine,
      <<ModuleItem>>,
      <<BlockComment(CmtTabSize)>>,
      <<BlockComment(CmtTabHidden)>>,
      <<LineComment(CmtDescription)>>,
      <<LineComment(CmtPreview)>>,
      <<VarDeclaration(Radius, Five)>>,
      <<VarDeclaration(Radius, Five), LineComment(CmtSlider)>>,
      <<VarDeclaration(Radius, TenTimesScale)>> }

\* short files of any lines, longer files of core lines, and the file that
\* cannot be read
Contents ==
    { Readable(l) : l \in SeqsUpTo(SourceLines, MaxLines)
                          \cup SeqsUpTo(CoreLines, MaxCoreLines) }
    \cup {Unreadable}

\* _parser.parse(content).root_node.children: the nodes of every line, in
\* order, each with the row of its line
RECURSIVE ParseFrom(_, _)
ParseFrom(lines, k) ==
    IF k > Len(lines) THEN <<>>
    ELSE [j \in 1..Len(lines[k]) |-> TopNode(lines[k][j], k - 1)]
         \o ParseFrom(lines, k + 1)

Parse(content) == ParseFrom(content.lines, 1)

(***************************************************************************)
(* LintError and LintResult (lines 23-44).                                 *)
(***************************************************************************)
TplCouldNotRead == "Could not read file: {e}"
TplAfterModules ==
    "Parameter '{var_name}' is after module declarations (won't be customizable)"
TplNoTab == "Parameters should be organized into tabs using /* [Tab Name] */"
TplNoDescription == "Parameter '{var_name}' lacks a description comment"
TplComputed == "Parameter '{var_name}': {reason}"
TplInvalidAnnotation == "Parameter '{var_name}' has invalid annotation: {annotation}"
TplNoAnnotation == "Parameter '{var_name}' has no UI annotation (will be a text input)"
TplNotCustomizable == "No Customizer parameters found - file is not customizable"

\* an f-string: its template and the values substituted into it
Message(template, var_name, annotation, reason) ==
    [template |-> template, var_name |-> var_name,
     annotation |-> annotation, reason |-> reason]

\* severity defaults to "error" (line 29)
LintError(file, line, message, severity) ==
    [file |-> file, line |-> line, message |-> message, severity |-> severity]

LintResult(file) == [file |-> file, errors |-> <<>>, warnings |-> <<>>]

\* passed in the strict sense: warnings fail the file too
passed_Strict(r) == Len(r.errors) = 0 /\ Len(r.warnings) = 0

\* lines 42-44
passed(r) == Len(r.errors) = 0

(***************************************************************************)
(* State.  main (lines 405-411) calls lint_file for each path in turn and  *)
(* collects the results; the lint command of scad_tools.py (lines 391-404) *)
(* calls it for each file found.  The other variables are the locals of    *)
(* the lint_file call in progress and the locals of the entry point.       *)
(***************************************************************************)
VARIABLES
    fs,                 \* the files on disk: path -> content
    paths,              \* args.paths, the files to lint, in order
    all_results,        \* main: the results of the calls that returned
    pc,                 \* "idle" (in main), "start", "walk" (in lint_file), "raised"
    filepath,           \* lint_file's argument
    result,             \* lint_file: the LintResult being built
    children,           \* root.children
    index,              \* position of the for loop in root.children (1-based)
    current_tab,
    in_parameter_section,
    found_any_tab,
    found_any_param,
    param_without_tab_warning_issued,
    previous_comment,
    previous_was_description,
    is_computed,
    ann_input,          \* parse_annotation's argument, when it is applied alone
    tokens,             \* the numeric tokens ann_input was written from, if any
    ann_result,         \* what parse_annotation returned, <<>> before the call
    val_input,          \* get_value_type's argument as <<node>>, when it is applied alone
    val_result,         \* what get_value_type returned, <<>> before the call
    entry,              \* the entry point running: "main" or "lint"
    strict,             \* --strict
    quiet,              \* --quiet
    reported,           \* how many results the entry point has printed
    total_errors,
    total_warnings,
    failed,             \* the failed count of the summary
    exit_code,          \* the process's exit status as <<code>>, <<>> while it runs
    rglob,              \* find_scad_files: what base_path.rglob("*.scad") yields, in its order
    flags,              \* find_scad_files: its five keyword arguments
    found,              \* what find_scad_files returned as <<list>>, <<>> before the call
    cache_config,       \* render_single_model: None (<<>>) or <<the cache configuration>>
    remote,             \* the registry: tag -> <<files of the artifact>>, <<>> if there is none
    out_files,          \* the files present in output_dir
    render_pc,          \* render_single_model's position
    stl_run,            \* the OpenSCAD run for the STL as <<outcome>>, <<>> before it
    pushed,             \* the oras_push calls made, as tags in order
    returned            \* what render_single_model returned as <<bool>>, <<>> before

vars == <<fs, paths, all_results, pc, filepath, result, children, index,
          current_tab, in_parameter_section, found_any_tab, found_any_param,
          param_without_tab_warning_issued, previous_comment,
          previous_was_description, is_computed, ann_input, tokens, ann_result,
          val_input, val_result, entry, strict, quiet, reported, total_errors, total_warnings, failed,
          exit_code, rglob, flags, found, cache_config, remote, out_files,
          render_pc, stl_run, pushed, returned>>

\* the classifiers applied alone, outside any lint_file call
classifier_vars == <<ann_input, tokens, ann_result, val_input, val_result>>

NoClassifierCall ==
    /\ ann_input = <<>>
    /\ tokens = <<>>
    /\ ann_result = <<>>
    /\ val_input = <<>>
    /\ val_result = <<>>

\* the options and the locals of the entry point
cli_vars == <<entry, strict, quiet, reported, total_errors, total_warnings,
              failed, exit_code>>

\* lint_file called without options, nothing printed yet
NoCli ==
    /\ entry = "main"
    /\ strict = FALSE
    /\ quiet = FALSE
    /\ reported = 0
    /\ total_errors = 0
    /\ total_warnings = 0
    /\ failed = 0
    /\ exit_code = <<>>

\* the state of the scad_tools.py functions applied alone
find_vars == <<rglob, flags, found>>
render_vars == <<cache_config, remote, out_files, render_pc, stl_run, pushed, returned>>
tool_vars == <<rglob, flags, found, cache_config, remote, out_files,
               render_pc, stl_run, pushed, returned>>

\* find_scad_files' keyword arguments at their defaults (lines 283-287)
DefaultFlags ==
    [include_tests |-> FALSE, include_libs |-> FALSE, include_constants |-> FALSE,
     include_reference |-> FALSE, only_tests |-> FALSE]

\* an empty registry: no artifact under the model's content tag nor under latest
NoArtifacts == [tag \in {"content", "latest"} |-> <<>>]

NoFind ==
    /\ rglob = <<>>
    /\ flags = DefaultFlags
    /\ found = <<>>

NoRender ==
    /\ cache_config = <<>>
    /\ remote = NoArtifacts
    /\ out_files = {}
    /\ render_pc = "idle"
    /\ stl_run = <<>>
    /\ pushed = <<>>
    /\ returned = <<>>

\* no scad_tools.py function other than lint is called
NoTool == NoFind /\ NoRender

scan == <<current_tab, in_parameter_section, found_any_tab, found_any_param,
          param_without_tab_warning_issued, previous_comment,
          previous_was_description, is_computed>>

\* current_tab = None; a tab name is never empty
NoTab == <<>>
\* previous_comment = None; otherwise the position of the comment node
NoComment == 0
\* a local that no assignment has bound yet; once bound it is <<value>>
Unbound == <<>>

PathA == "a.scad"
PathB == "b.scad"

\* the locals of a call that has not assigned any of them yet
FreshFrame ==
    /\ children = <<>>
    /\ index = 1
    /\ current_tab = NoTab
    /\ in_parameter_section = TRUE
    /\ found_any_tab = FALSE
    /\ found_any_param = FALSE
    /\ param_without_tab_warning_issued = FALSE
    /\ previous_comment = NoComment
    /\ previous_was_description = FALSE
    /\ is_computed = Unbound

\* one file to lint, of any content
Init ==
    /\ fs \in [{PathA} -> Contents]
    /\ paths = <<PathA>>
    /\ all_results = <<>>
    /\ pc = "idle"
    /\ filepath = PathA
    /\ result = LintResult(PathA)
    /\ FreshFrame
    /\ NoClassifierCall
    /\ NoCli
    /\ NoTool

(***************************************************************************)
(* main, lines 407-409: the next call of lint_file.  The call starts with  *)
(* a new frame (no local is bound) and a new LintResult whose lists come   *)
(* from default_factory (lines 39-40, 171).  The lint command calls        *)
(* lint_file for the next file once the result before is printed.          *)
(***************************************************************************)
\* line 408: path.is_file()
IsFile(path) == path \in DOMAIN fs

\* Call with a LintResult whose lists are shared between calls (a mutable
\* default instead of default_factory): the new result starts with the
\* diagnostics of the one before
Call_SharedLists ==
    /\ pc = "idle"
    /\ Len(all_results) < Len(paths)
    /\ IsFile(paths[Len(all_results) + 1])
    /\ entry = "lint" => reported = Len(all_results)
    /\ filepath' = paths[Len(all_results) + 1]
    /\ result' = [result EXCEPT !.file = paths[Len(all_results) + 1]]
    /\ is_computed' = Unbound
    /\ pc' = "start"
    /\ UNCHANGED <<fs, paths, all_results, children, index, current_tab,
                   in_parameter_section, found_any_tab, found_any_param,
                   param_without_tab_warning_issued, previous_comment,
                   previous_was_description>>
    /\ UNCHANGED classifier_vars
    /\ UNCHANGED tool_vars
    /\ UNCHANGED cli_vars

Call ==
    /\ pc = "idle"
    /\ Len(all_results) < Len(paths)
    /\ IsFile(paths[Len(all_results) + 1])
    /\ entry = "lint" => reported = Len(all_results)
    /\ filepath' = paths[Len(all_results) + 1]
    /\ result' = LintResult(paths[Len(all_results) + 1])
    /\ is_computed' = Unbound
    /\ pc' = "start"
    /\ UNCHANGED <<fs, paths, all_results, children, index, current_tab,
                   in_parameter_section, found_any_tab, found_any_param,
                   param_without_tab_warning_issued, previous_comment,
                   previous_was_description>>
    /\ UNCHANGED classifier_vars
    /\ UNCHANGED tool_vars
    /\ UNCHANGED cli_vars

\* ReadFail without the return of line 181: the error is appended and the
\* walk goes on over a tree without nodes
ReadFail_NoReturn ==
    /\ pc = "start"
    /\ ~fs[filepath].readable
    /\ result' = [result EXCEPT !.errors = Append(@,
                    LintError(filepath, 0,
                              Message(TplCouldNotRead, <<>>, <<>>, ""), "error"))]
    /\ children' = <<>>
    /\ index' = 1
    /\ current_tab' = NoTab
    /\ in_parameter_section' = TRUE
    /\ found_any_tab' = FALSE
    /\ found_any_param' = FALSE
    /\ param_without_tab_warning_issued' = FALSE
    /\ previous_comment' = NoComment
    /\ previous_was_description' = FALSE
    /\ pc' = "walk"
    /\ UNCHANGED <<fs, paths, all_results, filepath, is_computed>>
    /\ UNCHANGED classifier_vars
    /\ UNCHANGED tool_vars
    /\ UNCHANGED cli_vars

\* lines 173-181: read_bytes raises, one error at line 0, return
ReadFail ==
    /\ pc = "start"
    /\ ~fs[filepath].readable
    /\ LET r == [result EXCEPT !.errors = Append(@,
                    LintError(filepath, 0,
                              Message(TplCouldNotRead, <<>>, <<>>, ""), "error"))]
       IN /\ result' = r
          /\ all_results' = Append(all_results, r)
    /\ pc' = "idle"
    /\ UNCHANGED <<fs, paths, filepath, children, index, scan>>
    /\ UNCHANGED classifier_vars
    /\ UNCHANGED tool_vars
    /\ UNCHANGED cli_vars

\* lines 174, 183-193: the file is read and parsed, the scan state is set
ReadOk ==
    /\ pc = "start"
    /\ fs[filepath].readable
    /\ children' = Parse(fs[filepath])
    /\ index' = 1
    /\ current_tab' = NoTab
    /\ in_parameter_section' = TRUE
    /\ found_any_tab' = FALSE
    /\ found_any_param' = FALSE
    /\ param_without_tab_warning_issued' = FALSE
    /\ previous_comment' = NoComment
    /\ previous_was_description' = FALSE
    /\ pc' = "walk"
    /\ UNCHANGED <<fs, paths, all_results, filepath, result, is_computed>>
    /\ UNCHANGED classifier_vars
    /\ UNCHANGED tool_vars
    /\ UNCHANGED cli_vars

\* the for loop of line 196 is at a node
AtNode == pc = "walk" /\ index <= Len(children)
node == children[index]
line == node.row + 1

\* ResetAndContinue without the assignment to previous_was_description
ResetAndContinue_KeepsDescription ==
    /\ previous_comment' = NoComment
    /\ previous_was_description' = previous_was_description
    /\ index' = index + 1

\* previous_comment = None; previous_was_description = False; continue
ResetAndContinue ==
    /\ previous_comment' = NoComment
    /\ previous_was_description' = FALSE
    /\ index' = index + 1

\* ModuleOrFunction without the assignment of line 201
ModuleOrFunction_SectionGoesOn ==
    /\ AtNode
    /\ node.type \in {"module_item", "function_item"}
    /\ ResetAndContinue
    /\ UNCHANGED <<fs, paths, all_results, pc, filepath, result, children,
                   current_tab, in_parameter_section, found_any_tab, found_any_param,
                   param_without_tab_warning_issued, is_computed>>
    /\ UNCHANGED classifier_vars
    /\ UNCHANGED tool_vars
    /\ UNCHANGED cli_vars

\* lines 200-204
ModuleOrFunction ==
    /\ AtNode
    /\ node.type \in {"module_item", "function_item"}
    /\ in_parameter_section' = FALSE
    /\ ResetAndContinue
    /\ UNCHANGED <<fs, paths, all_results, pc, filepath, result, children,
                   current_tab, found_any_tab, found_any_param,
                   param_without_tab_warning_issued, is_computed>>
    /\ UNCHANGED classifier_vars
    /\ UNCHANGED tool_vars
    /\ UNCHANGED cli_vars

\* BlockCommentNode that assigns current_tab whether tab_decl matched or not:
\* a block comment that is no tab marker ends the current tab
BlockCommentNode_AnyCommentSetsTab ==
    /\ AtNode
    /\ node.type = "block_comment"
    /\ LET tab_match == PATTERNS_tab_decl(node.text)
       IN /\ current_tab' = tab_match
          /\ found_any_tab' = (found_any_tab \/ tab_match # NoMatch)
    /\ ResetAndContinue
    /\ UNCHANGED <<fs, paths, all_results, pc, filepath, result, children,
                   in_parameter_section, found_any_param,
                   param_without_tab_warning_issued, is_computed>>
    /\ UNCHANGED classifier_vars
    /\ UNCHANGED tool_vars
    /\ UNCHANGED cli_vars

\* lines 207-215
BlockCommentNode ==
    /\ AtNode
    /\ node.type = "block_comment"
    /\ LET tab_match == PATTERNS_tab_decl(node.text)
       IN IF tab_match # NoMatch
          THEN /\ current_tab' = tab_match
               /\ found_any_tab' = TRUE
          ELSE UNCHANGED <<current_tab, found_any_tab>>
    /\ ResetAndContinue
    /\ UNCHANGED <<fs, paths, all_results, pc, filepath, result, children,
                   in_parameter_section, found_any_param,
                   param_without_tab_warning_issued, is_computed>>
    /\ UNCHANGED classifier_vars
    /\ UNCHANGED tool_vars
    /\ UNCHANGED cli_vars

\* CommentKind without the annotation_comment test of line 228
CommentKind_AnnotationDescribes(text) ==
    IF PATTERNS_preview(text) THEN "preview" ELSE "description"

\* CommentKind with the branches of line 228 swapped
CommentKind_Swapped(text) ==
    IF PATTERNS_preview(text) THEN "preview"
    ELSE IF PATTERNS_annotation_comment(text) # NoMatch THEN "description"
    ELSE "annotation"

\* lines 222-235: what a line comment is taken for
CommentKind(text) ==
    IF PATTERNS_preview(text) THEN "preview"
    ELSE IF PATTERNS_annotation_comment(text) # NoMatch THEN "annotation"
    ELSE "description"

\* lines 218-236
LineCommentNode ==
    /\ AtNode
    /\ node.type = "line_comment"
    /\ IF CommentKind(node.text) = "description"
       THEN /\ previous_comment' = index
            /\ previous_was_description' = TRUE
       ELSE /\ previous_comment' = NoComment
            /\ previous_was_description' = FALSE
    /\ index' = index + 1
    /\ UNCHANGED <<fs, paths, all_results, pc, filepath, result, children,
                   current_tab, in_parameter_section, found_any_tab,
                   found_any_param, param_without_tab_warning_issued, is_computed>>
    /\ UNCHANGED classifier_vars
    /\ UNCHANGED tool_vars
    /\ UNCHANGED cli_vars

\* lines 241-245: the first child of type "assignment", as <<node>>, or <<>>
RECURSIVE FindAssignment(_, _)
FindAssignment(kids, k) ==
    IF k > Len(kids) THEN <<>>
    ELSE IF kids[k].type = "assignment" THEN <<kids[k]>>
    ELSE FindAssignment(kids, k + 1)

\* lines 253-259: the loop over assignment.children from child k on.  name is
\* the text of the first identifier child (<<>> while var_name is None: an
\* identifier's text is never empty), value is <<node>> for the last child
\* that is neither "=" nor an identifier (<<>> while var_value is None).
RECURSIVE ScanAssignment(_, _, _, _)
ScanAssignment(kids, k, name, value) ==
    IF k > Len(kids) THEN [var_name |-> name, var_value |-> value]
    ELSE IF kids[k].type = "identifier" /\ name = <<>>
         THEN ScanAssignment(kids, k + 1, kids[k].text, value)
    ELSE IF kids[k].type \notin {"=", "identifier"}
         THEN ScanAssignment(kids, k + 1, name, <<kids[k]>>)
    ELSE ScanAssignment(kids, k + 1, name, value)

\* line 261: not var_name or var_name.startswith("$")
IsSkippedName(var_name) == var_name = <<>> \/ var_name[1] = "$"

\* the walk without the test of line 268
InHiddenTab_Never == FALSE

\* line 268
InHiddenTab == current_tab = TxtHidden

\* lines 304-305: is_computed after the value check: bound by get_value_type
\* when there is a value, left as it was otherwise
ComputedAfter(var_value) ==
    IF var_value # <<>> THEN <<get_value_type(var_value[1])[2]>> ELSE is_computed

\* lines 275-312: the warnings of a qualifying parameter, before the
\* annotation is looked up
WarningsBefore(var_name, var_value) ==
    LET w1 == IF ~in_parameter_section
              THEN <<LintError(filepath, line,
                        Message(TplAfterModules, var_name, <<>>, ""), "warning")>>
              ELSE <<>>
        w2 == IF ~found_any_tab /\ ~param_without_tab_warning_issued
              THEN <<LintError(filepath, line,
                        Message(TplNoTab, <<>>, <<>>, ""), "warning")>>
              ELSE <<>>
        w3 == IF ~previous_was_description
              THEN <<LintError(filepath, line,
                        Message(TplNoDescription, var_name, <<>>, ""), "warning")>>
              ELSE <<>>
        w4 == IF var_value # <<>> /\ get_value_type(var_value[1])[2]
              THEN <<LintError(filepath, line,
                        Message(TplComputed, var_name, <<>>,
                                get_value_type(var_value[1])[3]), "warning")>>
              ELSE <<>>
    IN w1 \o w2 \o w3 \o w4

\* lines 316-323: the annotation in the next sibling: group 1 of
\* annotation_comment when the next top-level node is a line comment that
\* matches it, NoMatch otherwise
NextAnnotation ==
    IF /\ index + 1 <= Len(children)
       /\ children[index + 1].type = "line_comment"
    THEN PATTERNS_annotation_comment(children[index + 1].text)
    ELSE NoMatch

\* AnnotationErrors that rejects every annotation, valid or not
AnnotationErrors_Always(var_name, annotation) ==
    IF annotation # NoMatch
    THEN <<LintError(filepath, children[index + 1].row + 1,
              Message(TplInvalidAnnotation, var_name, annotation, ""), "error")>>
    ELSE <<>>

\* AnnotationErrors that reports an annotation that does not parse twice
AnnotationErrors_Twice(var_name, annotation) ==
    IF annotation # NoMatch /\ ~parse_annotation(annotation)[2]
    THEN <<LintError(filepath, children[index + 1].row + 1,
              Message(TplInvalidAnnotation, var_name, annotation, ""), "error"),
           LintError(filepath, children[index + 1].row + 1,
              Message(TplInvalidAnnotation, var_name, annotation, ""), "error")>>
    ELSE <<>>

\* AnnotationErrors that accepts what parse_annotation rejects
AnnotationErrors_Never(var_name, annotation) == <<>>

\* lines 324-331: the error for an annotation that does not parse
AnnotationErrors(var_name, annotation) ==
    IF annotation # NoMatch /\ ~parse_annotation(annotation)[2]
    THEN <<LintError(filepath, children[index + 1].row + 1,
              Message(TplInvalidAnnotation, var_name, annotation, ""), "error")>>
    ELSE <<>>

\* line 334 without the test of is_computed
MissesAnnotation_ComputedToo(annotation, computed) == annotation = NoMatch

\* line 334: not annotation_found and not is_computed
MissesAnnotation(annotation, computed) == annotation = NoMatch /\ ~computed[1]

\* NoAnnotationWarning at line 1 instead of the declaration's line
NoAnnotationWarning_AtLineOne(var_name) ==
    <<LintError(filepath, 1, Message(TplNoAnnotation, var_name, <<>>, ""), "warning")>>

\* NoAnnotationWarning with LintError's default severity
NoAnnotationWarning_DefaultSeverity(var_name) ==
    <<LintError(filepath, line, Message(TplNoAnnotation, var_name, <<>>, ""), "error")>>

\* lines 334-340
NoAnnotationWarning(var_name) ==
    <<LintError(filepath, line, Message(TplNoAnnotation, var_name, <<>>, ""), "warning")>>

\* lines 239-344
VarDeclarationNode ==
    /\ AtNode
    /\ node.type = "var_declaration"
    /\ LET assignment == FindAssignment(node.children, 1)
           nv == IF assignment = <<>>
                 THEN [var_name |-> <<>>, var_value |-> <<>>]
                 ELSE ScanAssignment(assignment[1].children, 1, <<>>, <<>>)
           annotation == NextAnnotation
           computed == ComputedAfter(nv.var_value)
           warned == [result EXCEPT
                        !.warnings = @ \o WarningsBefore(nv.var_name, nv.var_value),
                        !.errors = @ \o AnnotationErrors(nv.var_name, annotation)]
       IN IF assignment = <<>> \/ IsSkippedName(nv.var_name) \/ InHiddenTab
          THEN \* lines 247-250, 261-265, 268-271
               /\ ResetAndContinue
               /\ UNCHANGED <<pc, result, found_any_param,
                              param_without_tab_warning_issued, is_computed>>
          ELSE /\ found_any_param' = TRUE
               /\ param_without_tab_warning_issued' =
                      (param_without_tab_warning_issued \/ ~found_any_tab)
               /\ is_computed' = computed
               /\ IF annotation = NoMatch /\ computed = Unbound
                  THEN \* line 334 reads is_computed, which no assignment has
                       \* bound: UnboundLocalError leaves lint_file
                       /\ pc' = "raised"
                       /\ result' = warned
                       /\ UNCHANGED <<index, previous_comment,
                                      previous_was_description>>
                  ELSE /\ pc' = pc
                       /\ result' =
                             IF MissesAnnotation(annotation, computed)
                             THEN [warned EXCEPT !.warnings =
                                      @ \o NoAnnotationWarning(nv.var_name)]
                             ELSE warned
                       /\ ResetAndContinue
    /\ UNCHANGED <<fs, paths, all_results, filepath, children, current_tab,
                   in_parameter_section, found_any_tab>>
    /\ UNCHANGED classifier_vars
    /\ UNCHANGED tool_vars
    /\ UNCHANGED cli_vars

\* lines 346-347: any other top-level node
OtherNode ==
    /\ AtNode
    /\ node.type \notin {"module_item", "function_item", "block_comment",
                         "line_comment", "var_declaration"}
    /\ ResetAndContinue
    /\ UNCHANGED <<fs, paths, all_results, pc, filepath, result, children,
                   current_tab, in_parameter_section, found_any_tab,
                   found_any_param, param_without_tab_warning_issued, is_computed>>
    /\ UNCHANGED classifier_vars
    /\ UNCHANGED tool_vars
    /\ UNCHANGED cli_vars

\* lines 349-357: the loop is over; the result returns to main (line 409)
Return ==
    /\ pc = "walk"
    /\ index > Len(children)
    /\ LET r == IF ~found_any_param
                THEN [result EXCEPT !.errors = Append(@,
                        LintError(filepath, 1,
                                  Message(TplNotCustomizable, <<>>, <<>>, ""), "error"))]
                ELSE result
       IN /\ result' = r
          /\ all_results' = Append(all_results, r)
    /\ pc' = "idle"
    /\ UNCHANGED <<fs, paths, filepath, children, index, scan>>
    /\ UNCHANGED classifier_vars
    /\ UNCHANGED tool_vars
    /\ UNCHANGED cli_vars

Next ==
    \/ Call
    \/ ReadFail
    \/ ReadOk
    \/ ModuleOrFunction
    \/ BlockCommentNode
    \/ LineCommentNode
    \/ VarDeclarationNode
    \/ OtherNode
    \/ Return

Spec == Init /\ [][Next]_vars

(***************************************************************************)
(* main linting several paths in one run (lines 407-409): two files on     *)
(* disk, linted in any order and any number of times up to MaxCalls.       *)
(***************************************************************************)
RepeatLines ==
    { <<BlockComment(CmtTabSize)>>,
      <<LineComment(CmtDescription)>>,
      <<ModuleItem>>,
      <<OtherItem>>,
      <<VarDeclaration(Radius, Five)>>,
      <<VarDeclaration(Radius, TenTimesScale), LineComment(CmtNested)>> }

RepeatContents ==
    { Readable(l) : l \in SeqsUpTo(RepeatLines, MaxRepeatLines) } \cup {Unreadable}

InitRepeat ==
    /\ fs \in [{PathA, PathB} -> RepeatContents]
    /\ paths \in SeqsUpTo({PathA, PathB}, MaxCalls) \ {<<>>}
    /\ all_results = <<>>
    /\ pc = "idle"
    /\ filepath = PathA
    /\ result = LintResult(PathA)
    /\ FreshFrame
    /\ NoClassifierCall
    /\ NoCli
    /\ NoTool

SpecRepeat == InitRepeat /\ [][Next]_vars

(***************************************************************************)
(* The two entry points with their options: main of customizer_lint.py     *)
(* (lines 371-448), which lints every path and then prints, and the lint   *)
(* command of scad_tools.py (lines 375-417), which prints each file's      *)
(* result as soon as lint_file returns it.                                 *)
(***************************************************************************)
\* main, lines 420-428: one round of the loop that prints the results
ReportMain ==
    /\ entry = "main"
    /\ pc = "idle"
    /\ Len(all_results) = Len(paths)
    /\ reported < Len(all_results)
    /\ LET r == all_results[reported + 1]
       IN /\ total_errors' = total_errors + Len(r.errors)
          /\ total_warnings' =
                IF ~quiet THEN total_warnings + Len(r.warnings) ELSE total_warnings
    /\ reported' = reported + 1
    /\ UNCHANGED <<entry, strict, quiet, failed, exit_code>>
    /\ UNCHANGED <<fs, paths, all_results, pc, filepath, result, children, index, scan>>
    /\ UNCHANGED classifier_vars
    /\ UNCHANGED tool_vars

\* lint, lines 394-404: the result that lint_file just returned is printed
\* and counted
ReportLint ==
    /\ entry = "lint"
    /\ pc = "idle"
    /\ reported < Len(all_results)
    /\ LET r == all_results[reported + 1]
       IN /\ total_errors' = total_errors + Len(r.errors)
          /\ total_warnings' =
                IF ~quiet THEN total_warnings + Len(r.warnings) ELSE total_warnings
          /\ failed' = IF ~passed(r) \/ (strict /\ r.warnings # <<>>)
                       THEN failed + 1 ELSE failed
    /\ reported' = reported + 1
    /\ UNCHANGED <<entry, strict, quiet, exit_code>>
    /\ UNCHANGED <<fs, paths, all_results, pc, filepath, result, children, index, scan>>
    /\ UNCHANGED classifier_vars
    /\ UNCHANGED tool_vars

\* main 446-448, lint 415-417
ExitCode ==
    IF strict
    THEN IF (total_errors + total_warnings) > 0 THEN 1 ELSE 0
    ELSE IF total_errors > 0 THEN 1 ELSE 0

\* main, lines 430-448: the summary and the return value
SummaryMain ==
    /\ entry = "main"
    /\ pc = "idle"
    /\ Len(all_results) = Len(paths)
    /\ reported = Len(all_results)
    /\ failed' =
          IF all_results = <<>> THEN failed
          ELSE IF strict
               THEN Cardinality({k \in 1..Len(all_results) :
                                    \/ all_results[k].errors # <<>>
                                    \/ all_results[k].warnings # <<>>})
               ELSE Len(all_results)
                    - Cardinality({k \in 1..Len(all_results) : passed(all_results[k])})
    /\ exit_code' = <<ExitCode>>
    /\ pc' = "exited"
    /\ UNCHANGED <<entry, strict, quiet, reported, total_errors, total_warnings>>
    /\ UNCHANGED <<fs, paths, all_results, filepath, result, children, index, scan>>
    /\ UNCHANGED classifier_vars
    /\ UNCHANGED tool_vars

\* lint, lines 406-417: the summary and sys.exit
SummaryLint ==
    /\ entry = "lint"
    /\ pc = "idle"
    /\ Len(all_results) = Len(paths)
    /\ reported = Len(all_results)
    /\ exit_code' = <<ExitCode>>
    /\ pc' = "exited"
    /\ UNCHANGED <<entry, strict, quiet, reported, total_errors, total_warnings,
                   failed>>
    /\ UNCHANGED <<fs, paths, all_results, filepath, result, children, index, scan>>
    /\ UNCHANGED classifier_vars
    /\ UNCHANGED tool_vars

\* main, lines 412-414: a path that is neither a file nor a directory
BadPath ==
    /\ entry = "main"
    /\ pc = "idle"
    /\ Len(all_results) < Len(paths)
    /\ ~IsFile(paths[Len(all_results) + 1])
    /\ exit_code' = <<1>>
    /\ pc' = "exited"
    /\ UNCHANGED <<entry, strict, quiet, reported, total_errors, total_warnings,
                   failed>>
    /\ UNCHANGED <<fs, paths, all_results, filepath, result, children, index, scan>>
    /\ UNCHANGED classifier_vars
    /\ UNCHANGED tool_vars

\* lines 451-452: an exception that leaves lint_file leaves the entry point
\* too; the interpreter prints the traceback and exits with status 1
Uncaught ==
    /\ pc = "raised"
    /\ exit_code' = <<1>>
    /\ pc' = "exited"
    /\ UNCHANGED <<entry, strict, quiet, reported, total_errors, total_warnings,
                   failed>>
    /\ UNCHANGED <<fs, paths, all_results, filepath, result, children, index, scan>>
    /\ UNCHANGED classifier_vars
    /\ UNCHANGED tool_vars

\* the files on disk when an entry point runs, in sorted path order: one
\* without findings, one without content, one with an error and warnings,
\* one whose walk raises, one that cannot be read, one with warnings only
CliPaths ==
    <<"clean.scad", "empty.scad", "error.scad", "raise.scad", "unreadable.scad",
      "warn.scad">>
PathMissing == "missing.scad"

CliFiles ==
    ("clean.scad" :> Readable(<< <<BlockComment(CmtTabSize)>>,
                                 <<LineComment(CmtDescription)>>,
                                 <<VarDeclaration(Radius, Five), LineComment(CmtSlider)>> >>))
    @@ ("empty.scad" :> Readable(<<>>))
    @@ ("error.scad" :> Readable(<< <<OtherItem>>,
                                    <<VarDeclaration(Radius, Five), LineComment(CmtNested)>> >>))
    @@ ("raise.scad" :> Readable(<< <<VarDeclaration(Radius, Scale)>> >>))
    @@ ("unreadable.scad" :> Unreadable)
    @@ ("warn.scad" :> Readable(<< <<ModuleItem>>,
                                   <<VarDeclaration(Radius, TenTimesScale)>> >>))

\* find_scad_files (scad_tools.py line 295): the files found, sorted, each once
SortedFiles ==
    { [k \in 1..Len(ix) |-> CliPaths[ix[k]]] :
        ix \in { q \in SeqsUpTo(1..Len(CliPaths), MaxCliPaths) :
                    \A k \in 1..(Len(q) - 1) : q[k] < q[k + 1] } }

\* args.paths (customizer_lint.py lines 375-380, nargs="+"): at least one
\* path, in any order, a file on disk or not
ArgPaths ==
    SeqsUpTo({CliPaths[k] : k \in 1..Len(CliPaths)} \cup {PathMissing}, MaxCliPaths)
    \ {<<>>}

InitCli ==
    /\ fs = CliFiles
    /\ entry \in {"main", "lint"}
    /\ strict \in BOOLEAN
    /\ quiet \in BOOLEAN
    /\ paths \in IF entry = "main" THEN ArgPaths ELSE SortedFiles
    /\ all_results = <<>>
    /\ pc = "idle"
    /\ filepath = PathA
    /\ result = LintResult(PathA)
    /\ FreshFrame
    /\ NoClassifierCall
    /\ reported = 0
    /\ total_errors = 0
    /\ total_warnings = 0
    /\ failed = 0
    /\ exit_code = <<>>
    /\ NoTool

NextCli ==
    \/ Call
    \/ ReadFail
    \/ ReadOk
    \/ ModuleOrFunction
    \/ BlockCommentNode
    \/ LineCommentNode
    \/ VarDeclarationNode
    \/ OtherNode
    \/ Return
    \/ ReportMain
    \/ ReportLint
    \/ SummaryMain
    \/ SummaryLint
    \/ BadPath
    \/ Uncaught

SpecCli == InitCli /\ [][NextCli]_vars

(***************************************************************************)
(* parse_annotation applied alone to a string.                             *)
(***************************************************************************)
AnnChars == {"[", "]", "1", "-", ".", ":", ",", "a", " "}

\* -?\d+(\.\d+)? written out: sign, integer part, fraction
NumericTokens ==
    { sign \o int \o frac : sign \in {<<>>, <<"-">>},
                            int \in {<<"1">>, <<"2", "0">>},
                            frac \in {<<>>, <<".", "5">>} }

RECURSIVE JoinColon(_)
JoinColon(toks) ==
    IF Len(toks) = 1 THEN toks[1]
    ELSE toks[1] \o <<":">> \o JoinColon(Tail(toks))

\* one bracket pair around the tokens, colon-separated
SliderText(toks) == <<"[">> \o JoinColon(toks) \o <<"]">>

BracketKeyword(keyword, w, h) ==
    <<"[">> \o keyword \o <<":">> \o w \o <<"x">> \o h \o <<"]">>

KeywordTexts ==
    { BracketKeyword(kw, w, h) : kw \in {KwImageSurface, KwImageArray, KwDrawPolygon},
                                 w \in {<<"1">>, <<"2", "0">>, <<>>},
                                 h \in {<<"5">>, <<"a">>} }

InitAnn ==
    /\ \/ /\ tokens \in SeqsUpTo(NumericTokens, MaxToks) \ {<<>>}
          /\ ann_input = SliderText(tokens)
       \/ /\ tokens = <<>>
          /\ ann_input \in SeqsUpTo(AnnChars, MaxAnnLen) \cup KeywordTexts
    /\ ann_result = <<>>
    /\ val_input = <<>>
    /\ val_result = <<>>
    /\ fs = <<>>
    /\ paths = <<>>
    /\ all_results = <<>>
    /\ pc = "idle"
    /\ filepath = PathA
    /\ result = LintResult(PathA)
    /\ FreshFrame
    /\ NoCli
    /\ NoTool

ParseAnnotation ==
    /\ ann_result = <<>>
    /\ ann_result' = parse_annotation(ann_input)
    /\ UNCHANGED <<fs, paths, all_results, pc, filepath, result, children, index,
                   scan, ann_input, tokens, val_input, val_result>>
    /\ UNCHANGED cli_vars
    /\ UNCHANGED tool_vars

NextAnn == ParseAnnotation

SpecAnn == InitAnn /\ [][NextAnn]_vars

(***************************************************************************)
(* get_value_type applied alone to a default value.                        *)
(***************************************************************************)
True == Boolean(<<"t","r","u","e">>)
Hello == String(<<"\"","h","i","\"">>)
OnePointFive == Float(<<"1",".","5">>)

\* what may stand as an element of a list
Elements ==
    { Five, OnePointFive, Hello, True, Scale,
      TenTimesScale,
      FunctionCall(<<"f">>),
      TernaryExpression(True, Five, Fifty),
      UnaryExpression("-", Five),
      UnaryExpression("-", Scale),
      List(<<Five>>),
      List(<<Scale>>) }

\* the default values classified: each element by itself, a unary plus and a
\* negation of a literal, and the lists of up to MaxListLen elements
Values ==
    Elements
    \cup { UnaryExpression("+", Five), UnaryExpression("!", Five),
           UnaryExpression("-", OnePointFive), UnaryExpression("!", True) }
    \cup { List(es) : es \in SeqsUpTo(Elements, MaxListLen) }

InitVal ==
    /\ val_input \in { <<v>> : v \in Values }
    /\ val_result = <<>>
    /\ ann_input = <<>>
    /\ tokens = <<>>
    /\ ann_result = <<>>
    /\ fs = <<>>
    /\ paths = <<>>
    /\ all_results = <<>>
    /\ pc = "idle"
    /\ filepath = PathA
    /\ result = LintResult(PathA)
    /\ FreshFrame
    /\ NoCli
    /\ NoTool

GetValueType ==
    /\ val_input # <<>>
    /\ val_result = <<>>
    /\ val_result' = get_value_type(val_input[1])
    /\ UNCHANGED <<fs, paths, all_results, pc, filepath, result, children, index,
                   scan, ann_input, tokens, ann_result, val_input>>
    /\ UNCHANGED cli_vars
    /\ UNCHANGED tool_vars

NextVal == GetValueType

SpecVal == InitVal /\ [][NextVal]_vars

(***************************************************************************)
(* What the claims speak of, read off the syntax tree of a file rather     *)
(* than off the linter's scan state.                                       *)
(***************************************************************************)
\* the tree of the k-th file linted
Tree(k) == Parse(fs[paths[k]])

IsDeclaration(n) == n.type = "var_declaration"

\* the name a declaration assigns to: the text left of "="
DeclaredName(n) == n.children[1].children[1].text

\* the default value of a declaration: the node right of "="
DeclaredValue(n) == n.children[1].children[3]

OrdinaryNamed(n) == IsDeclaration(n) /\ DeclaredName(n)[1] # "$"

IsTabMarker(n) == n.type = "block_comment" /\ PATTERNS_tab_decl(n.text) # NoMatch

\* the name in the last tab marker among kids[1..k-1], NoTab if there is none
RECURSIVE TabBefore(_, _)
TabBefore(kids, k) ==
    IF k <= 1 THEN NoTab
    ELSE IF IsTabMarker(kids[k - 1]) THEN PATTERNS_tab_decl(kids[k - 1].text)
    ELSE TabBefore(kids, k - 1)

\* kids[k] is a qualifying parameter: an ordinary-named top-level variable
\* declaration outside the Hidden tab
Qualifying(kids, k) ==
    /\ OrdinaryNamed(kids[k])
    /\ TabBefore(kids, k) # TxtHidden

NotCustomizableError(file) ==
    LintError(file, 1, Message(TplNotCustomizable, <<>>, <<>>, ""), "error")

\* C1: a readable file without any qualifying parameter gets exactly one
\* error, the "not customizable" error at line 1.
C1_OnlyNotCustomizable ==
    \A k \in 1..Len(all_results) :
        ( /\ fs[paths[k]].readable
          /\ \A j \in 1..Len(Tree(k)) : ~Qualifying(Tree(k), j) )
        => all_results[k].errors = <<NotCustomizableError(paths[k])>>

(***************************************************************************)
(* The result of the call in progress, while the walk runs or after it     *)
(* raised: node j has been handled once the loop is past it, or when the   *)
(* loop raised in it.                                                      *)
(***************************************************************************)
Walking == pc \in {"walk", "raised"}
Handled(j) == j < index \/ (pc = "raised" /\ j = index)

HasWarning(ln, template, name) ==
    \E i \in 1..Len(result.warnings) :
        /\ result.warnings[i].line = ln
        /\ result.warnings[i].severity = "warning"
        /\ result.warnings[i].message.template = template
        /\ result.warnings[i].message.var_name = name

\* the node before kids[k] is a line comment that is neither a preview
\* directive nor annotation-shaped
Described(kids, k) ==
    /\ k > 1
    /\ kids[k - 1].type = "line_comment"
    /\ ~PATTERNS_preview(kids[k - 1].text)
    /\ PATTERNS_annotation_comment(kids[k - 1].text) = NoMatch

\* C2: a qualifying parameter with no description comment before it has a
\* "lacks a description comment" warning at the declaration's line.
C2_LacksDescriptionWarned ==
    Walking =>
        \A j \in 1..Len(children) :
            (Handled(j) /\ Qualifying(children, j) /\ ~Described(children, j))
            => HasWarning(children[j].row + 1, TplNoDescription,
                          DeclaredName(children[j]))

\* C2's case: a parameter that follows an annotation-shaped comment line (no
\* description) has been handled and warned on its own line, the second
C2_Witness ==
    /\ Walking
    /\ \E j \in 2..Len(children) :
          /\ Handled(j)
          /\ Qualifying(children, j)
          /\ children[j - 1].type = "line_comment"
          /\ ~Described(children, j)
          /\ children[j].row = 1
          /\ HasWarning(2, TplNoDescription, DeclaredName(children[j]))

\* the annotation in the comment that follows kids[j]: group 1 of
\* annotation_comment, NoMatch when no annotation-shaped line comment follows
TrailingAnnotation(kids, j) ==
    IF j + 1 <= Len(kids) /\ kids[j + 1].type = "line_comment"
    THEN PATTERNS_annotation_comment(kids[j + 1].text)
    ELSE NoMatch

\* what stands between the outer brackets of an annotation
Inside(g) == Slice(g, 2, Len(g) - 1)

\* no digit and no colon inside: nothing numeric, no colon-separated
\* structure, no keyword form
NonNumeric(g) ==
    \A i \in 1..Len(Inside(g)) : Inside(g)[i] \notin Digits \cup {":"}

\* a further "[" inside the brackets
NestedBracket(g) == \E i \in 1..Len(Inside(g)) : Inside(g)[i] = "["

\* an "invalid annotation" error for kids[j] and its annotation g, at the
\* line of the comment
HasAnnotationError(kids, j, g) ==
    \E i \in 1..Len(result.errors) :
        /\ result.errors[i].severity = "error"
        /\ result.errors[i].line = kids[j + 1].row + 1
        /\ result.errors[i].message =
              Message(TplInvalidAnnotation, DeclaredName(kids[j]), g, "")

NoAnnotationDiagnosticIn(diags) ==
    \A i \in 1..Len(diags) : diags[i].message.template # TplInvalidAnnotation

\* C3 as claimed: an annotation with nothing numeric inside, such as [abc],
\* is ('unknown', invalid) and the parameter before it gets an error.
C3_WordIsInvalid ==
    Walking =>
        \A j \in 1..Len(children) :
            LET g == TrailingAnnotation(children, j)
            IN (Handled(j) /\ Qualifying(children, j) /\ g # NoMatch /\ NonNumeric(g))
               => /\ parse_annotation(g) = <<"unknown", FALSE>>
                  /\ HasAnnotationError(children, j, g)

\* C3 (amended): an annotation with a nested "[" inside, such as [[1:20], is
\* ('unknown', invalid) and the qualifying parameter before it gets an
\* error-severity diagnostic and no warning about the annotation; one with
\* nothing numeric and no bracket inside, such as [abc], is
\* ('dropdown', valid) and gets no diagnostic about the annotation.
C3_NestedIsInvalid ==
    Walking =>
        \A j \in 1..Len(children) :
            LET g == TrailingAnnotation(children, j)
            IN (Handled(j) /\ Qualifying(children, j) /\ g # NoMatch)
               => /\ NestedBracket(g) =>
                        /\ parse_annotation(g) = <<"unknown", FALSE>>
                        /\ HasAnnotationError(children, j, g)
                        /\ NoAnnotationDiagnosticIn(result.warnings)
                  /\ (NonNumeric(g) /\ ~NestedBracket(g)) =>
                        /\ parse_annotation(g) = <<"dropdown", TRUE>>
                        /\ ~HasAnnotationError(children, j, g)

\* C3's case: a qualifying parameter with the trailing comment // [[1:20] has
\* been handled and its error is in errors
C3_Witness ==
    /\ Walking
    /\ \E j \in 1..Len(children) :
          /\ Handled(j)
          /\ Qualifying(children, j)
          /\ TrailingAnnotation(children, j) # NoMatch
          /\ NestedBracket(TrailingAnnotation(children, j))
          /\ HasAnnotationError(children, j, TrailingAnnotation(children, j))

\* C4: one bracket pair around one, two or three colon-separated numeric
\* tokens is ('slider', valid); around four or more it is not a slider.
C4_SliderTokenCount ==
    (tokens # <<>> /\ ann_result # <<>>) =>
        /\ Len(tokens) <= 3 => ann_result = <<"slider", TRUE>>
        /\ Len(tokens) >= 4 => ann_result[1] # "slider"

\* C4's case: three tokens, one negative and one decimal, classified slider
C4_Witness ==
    /\ Len(tokens) = 3
    /\ \E i \in 1..3 : tokens[i][1] = "-"
    /\ \E i \in 1..3 : \E k \in 1..Len(tokens[i]) : tokens[i][k] = "."
    /\ ann_result = <<"slider", TRUE>>

TabWarnings == {i \in 1..Len(result.warnings) : result.warnings[i].message.template = TplNoTab}

\* kids[j] is the first qualifying parameter of the file
FirstQualifying(kids, j) ==
    /\ Qualifying(kids, j)
    /\ \A h \in 1..(j - 1) : ~Qualifying(kids, h)

\* C5: the "organized into tabs" warning appears at most once; when it
\* appears it is at the line of the first qualifying parameter, and no tab
\* marker precedes that parameter.
C5_TabWarningOnceAtFirst ==
    Walking =>
        /\ Cardinality(TabWarnings) <= 1
        /\ \A i \in TabWarnings :
              \E j \in 1..Len(children) :
                  /\ FirstQualifying(children, j)
                  /\ result.warnings[i].line = children[j].row + 1
                  /\ TabBefore(children, j) = NoTab

HasWarningReason(ln, name, reason) ==
    \E i \in 1..Len(result.warnings) :
        /\ result.warnings[i].line = ln
        /\ result.warnings[i].severity = "warning"
        /\ result.warnings[i].message = Message(TplComputed, name, <<>>, reason)

\* C6: no qualifying parameter has both the computed-default warning and the
\* "has no UI annotation" warning; one whose default is a binary expression
\* has the "computed expression" warning and not the "no UI annotation"
\* warning, with or without an annotation comment after it.
C6_ComputedExcludesNoAnnotation ==
    Walking =>
        \A j \in 1..Len(children) :
            (Handled(j) /\ Qualifying(children, j)) =>
                LET ln == children[j].row + 1
                    name == DeclaredName(children[j])
                IN /\ ~(HasWarning(ln, TplComputed, name)
                        /\ HasWarning(ln, TplNoAnnotation, name))
                   /\ DeclaredValue(children[j]).type = "binary_expression" =>
                         /\ HasWarningReason(ln, name, ReasonComputed)
                         /\ ~HasWarning(ln, TplNoAnnotation, name)

\* C6's case: radius = 10*scale; with no annotation after it has been
\* handled and has its "computed expression" warning
C6_Witness ==
    /\ Walking
    /\ \E j \in 1..Len(children) :
          /\ Handled(j)
          /\ Qualifying(children, j)
          /\ DeclaredValue(children[j]).type = "binary_expression"
          /\ TrailingAnnotation(children, j) = NoMatch
          /\ HasWarningReason(children[j].row + 1, DeclaredName(children[j]),
                              ReasonComputed)

\* C7: the step that handles an ordinary-named declaration while current_tab
\* is "Hidden" leaves the result's errors and warnings as they are.
C7_HiddenAppendsNothing ==
    [][(AtNode /\ OrdinaryNamed(node) /\ current_tab = TxtHidden)
       => result' = result]_vars

\* C7's case: under [Hidden] and after a module, an undescribed declaration
\* with a computed default and no annotation has been handled, and the result
\* is still empty
C7_Witness ==
    /\ Walking
    /\ ~in_parameter_section
    /\ \E j \in 1..Len(children) :
          /\ Handled(j)
          /\ OrdinaryNamed(children[j])
          /\ TabBefore(children, j) = TxtHidden
          /\ DeclaredValue(children[j]).type = "binary_expression"
          /\ ~Described(children, j)
          /\ TrailingAnnotation(children, j) = NoMatch
    /\ result.errors = <<>>
    /\ result.warnings = <<>>

IsLiteral(v) == v.type \in {"integer", "float", "string", "boolean"}

\* the tree is: a tab marker, a description comment, an ordinary-named
\* declaration with a literal default, a valid annotation comment
TabDescribedAnnotated(kids) ==
    /\ Len(kids) = 4
    /\ IsTabMarker(kids[1])
    /\ Described(kids, 3)
    /\ OrdinaryNamed(kids[3])
    /\ IsLiteral(DeclaredValue(kids[3]))
    /\ TrailingAnnotation(kids, 3) # NoMatch
    /\ parse_annotation(TrailingAnnotation(kids, 3))[2]

\* C8 as claimed: such a file, whatever its tab marker, has no errors and no
\* warnings.
C8_CleanFileAnyTab ==
    \A k \in 1..Len(all_results) :
        (fs[paths[k]].readable /\ TabDescribedAnnotated(Tree(k)))
        => /\ all_results[k].errors = <<>>
           /\ all_results[k].warnings = <<>>

\* C8 (amended): such a file whose tab marker names a tab other than Hidden
\* has no errors and no warnings.
C8_CleanFile ==
    \A k \in 1..Len(all_results) :
        ( /\ fs[paths[k]].readable
          /\ TabDescribedAnnotated(Tree(k))
          /\ PATTERNS_tab_decl(Tree(k)[1].text) # TxtHidden )
        => /\ all_results[k].errors = <<>>
           /\ all_results[k].warnings = <<>>

\* C8's case: /* [Size] */, // Radius, radius = 5; // [1:20] has been linted
C8_Witness ==
    \E k \in 1..Len(all_results) :
        /\ fs[paths[k]].readable
        /\ TabDescribedAnnotated(Tree(k))
        /\ PATTERNS_tab_decl(Tree(k)[1].text) = TxtSize
        /\ parse_annotation(TrailingAnnotation(Tree(k), 3)) = <<"slider", TRUE>>
        /\ all_results[k].errors = <<>>
        /\ all_results[k].warnings = <<>>

\* the diagnostics of a result without the file they name
Bare(diags) ==
    [i \in 1..Len(diags) |-> <<diags[i].line, diags[i].message, diags[i].severity>>]
Diagnostics(r) == <<Bare(r.errors), Bare(r.warnings)>>

\* C9: two calls of lint_file on the same content return the same error and
\* warning sequences, whatever was linted before or between them.
C9_SameContentSameResult ==
    \A k1, k2 \in 1..Len(all_results) :
        fs[paths[k1]] = fs[paths[k2]]
        => Diagnostics(all_results[k1]) = Diagnostics(all_results[k2])

\* C9's case: a file with findings was linted, then a file that could not be
\* read, then the first file again
C9_Witness ==
    /\ Len(all_results) = 3
    /\ paths[1] = paths[3]
    /\ ~fs[paths[2]].readable
    /\ all_results[1].warnings # <<>>
    /\ all_results[1].errors # <<>>
    /\ Diagnostics(all_results[3]) = Diagnostics(all_results[1])

\* C10: passed is true exactly when errors is empty, for the result being
\* built and for every result returned; a step that leaves errors alone
\* (whatever it adds to warnings) leaves passed as it is.
C10_PassedIffNoErrors ==
    /\ [](passed(result) <=> result.errors = <<>>)
    /\ [](\A k \in 1..Len(all_results) :
             passed(all_results[k]) <=> all_results[k].errors = <<>>)
    /\ [][result'.errors = result.errors => passed(result') = passed(result)]_vars

\* C10's case: a result with warnings and no errors, which passed
C10_Witness ==
    /\ Walking
    /\ Len(result.warnings) >= 2
    /\ result.errors = <<>>
    /\ passed(result)

\* the entry point has linted every path and exited
ExitedAfterAll == pc = "exited" /\ Len(all_results) = Len(paths)

AnyError == \E k \in 1..Len(all_results) : all_results[k].errors # <<>>
AnyWarning == \E k \in 1..Len(all_results) : all_results[k].warnings # <<>>

\* C11: whatever the strict and quiet options, an entry point that has linted
\* all its files exits nonzero exactly when a file has an error or, under
\* strict, a file has a warning (also with --quiet).
C11_ExitCodePolicy ==
    ExitedAfterAll =>
        (exit_code # <<0>> <=> (AnyError \/ (strict /\ AnyWarning)))

IsReadError(d) == d.message.template = TplCouldNotRead /\ d.severity = "error"

\* C12: the result for a file that cannot be read has exactly one error, the
\* "Could not read file" error, and no warning; the call returns from the
\* failed read at once, without a walk.
C12_ReadFailureShortCircuits ==
    /\ [](\A k \in 1..Len(all_results) :
             ~fs[paths[k]].readable =>
                /\ Len(all_results[k].errors) = 1
                /\ IsReadError(all_results[k].errors[1])
                /\ all_results[k].warnings = <<>>)
    /\ [][(pc = "start" /\ ~fs[filepath].readable)
            => /\ pc' = "idle"
               /\ Len(all_results') = Len(all_results) + 1
               /\ all_results'[Len(all_results')] = result'
               /\ scan' = scan]_vars

\* C12's case: a file that cannot be read has been linted and its result has
\* the one read error
C12_Witness ==
    \E k \in 1..Len(all_results) :
        /\ ~fs[paths[k]].readable
        /\ Len(all_results[k].errors) = 1
        /\ IsReadError(all_results[k].errors[1])

\* C13: the walk of a readable file never raises: every call of lint_file
\* runs to the end of the file and returns a result.
C13_WalkNeverRaises == pc # "raised"

AllDiagnostics(r) == r.errors \o r.warnings

\* C14: every diagnostic of every result, returned or being built, has a
\* line number of at least 1.
C14_LinesPositive ==
    /\ \A i \in 1..Len(AllDiagnostics(result)) : AllDiagnostics(result)[i].line >= 1
    /\ \A k \in 1..Len(all_results) :
          \A i \in 1..Len(AllDiagnostics(all_results[k])) :
              AllDiagnostics(all_results[k])[i].line >= 1

\* the annotation after kids[j] is one that parse_annotation rejects
InvalidTrailing(kids, j) ==
    /\ TrailingAnnotation(kids, j) # NoMatch
    /\ ~parse_annotation(TrailingAnnotation(kids, j))[2]

StyleTemplates ==
    {TplAfterModules, TplNoTab, TplNoDescription, TplComputed, TplNoAnnotation}

OnlyStyleWarnings(r) ==
    /\ \A i \in 1..Len(r.warnings) :
          /\ r.warnings[i].severity = "warning"
          /\ r.warnings[i].message.template \in StyleTemplates
    /\ \A i \in 1..Len(r.errors) :
          r.errors[i].message.template \notin StyleTemplates

\* C16: the findings of the five style rules are in warnings, with severity
\* "warning", and never in errors; a result whose findings are all of these
\* kinds has passed = true.
C16_StyleRulesOnlyWarn ==
    /\ OnlyStyleWarnings(result)
    /\ \A k \in 1..Len(all_results) :
          /\ OnlyStyleWarnings(all_results[k])
          /\ (\A i \in 1..Len(AllDiagnostics(all_results[k])) :
                 AllDiagnostics(all_results[k])[i].message.template \in StyleTemplates)
             => passed(all_results[k])

\* C16's case: a returned result with a warning of each of the five style
\* rules and nothing else, which passed
C16_Witness ==
    \E k \in 1..Len(all_results) :
        /\ { all_results[k].warnings[i].message.template :
                i \in 1..Len(all_results[k].warnings) } = StyleTemplates
        /\ all_results[k].errors = <<>>
        /\ passed(all_results[k])

\* a module or function declaration stands before kids[j]
CallableBefore(kids, j) ==
    \E h \in 1..(j - 1) : kids[h].type \in {"module_item", "function_item"}

\* C17: within a walk in_parameter_section never goes back to true, and a
\* qualifying parameter has the "is after module declarations" warning
\* exactly when a module or function declaration stands before it.
C17_SectionEndsForGood ==
    /\ [][(pc = "walk" /\ ~in_parameter_section) => ~in_parameter_section']_vars
    /\ [](Walking =>
            /\ in_parameter_section <=> ~CallableBefore(children, index)
            /\ \A j \in 1..Len(children) :
                  (Handled(j) /\ Qualifying(children, j)) =>
                      (HasWarning(children[j].row + 1, TplAfterModules,
                                  DeclaredName(children[j]))
                       <=> CallableBefore(children, j)))

\* C17's case: a parameter before the first module without the warning and a
\* parameter after it with the warning
C17_Witness ==
    /\ Walking
    /\ \E j1, j2 \in 1..Len(children) :
          /\ Handled(j1) /\ Handled(j2)
          /\ Qualifying(children, j1) /\ Qualifying(children, j2)
          /\ ~CallableBefore(children, j1)
          /\ CallableBefore(children, j2)
          /\ ~HasWarning(children[j1].row + 1, TplAfterModules, DeclaredName(children[j1]))
          /\ HasWarning(children[j2].row + 1, TplAfterModules, DeclaredName(children[j2]))

\* C18: a qualifying parameter whose default is a bare identifier has the
\* computed-default warning with the classifier's reference reason.
C18_ReferenceWarned ==
    Walking =>
        \A j \in 1..Len(children) :
            ( /\ Handled(j)
              /\ Qualifying(children, j)
              /\ DeclaredValue(children[j]).type = "identifier" )
            => HasWarningReason(children[j].row + 1, DeclaredName(children[j]),
                                ReasonReference)

\* a blank line stands between kids[j - 1] and kids[j]
BlankLineBefore(kids, j) == j > 1 /\ kids[j].row > kids[j - 1].row + 1

\* C19: a qualifying parameter separated from the description comment before
\* it by a blank line has the "lacks a description comment" warning.
C19_BlankLineResets ==
    Walking =>
        \A j \in 1..Len(children) :
            ( /\ Handled(j)
              /\ Qualifying(children, j)
              /\ Described(children, j)
              /\ BlankLineBefore(children, j) )
            => HasWarning(children[j].row + 1, TplNoDescription,
                          DeclaredName(children[j]))

IsPreview(n) == n.type = "line_comment" /\ PATTERNS_preview(n.text)

\* C20: a qualifying parameter that follows a preview directive has no "lacks
\* a description comment" warning when a description comment stands before
\* the directive, and has the warning when none does.
C20_PreviewKeepsDescription ==
    Walking =>
        \A j \in 2..Len(children) :
            ( /\ Handled(j)
              /\ Qualifying(children, j)
              /\ IsPreview(children[j - 1]) )
            => (HasWarning(children[j].row + 1, TplNoDescription,
                           DeclaredName(children[j]))
                <=> ~Described(children, j - 1))

\* C21: at every top-level variable declaration, previous_was_description is
\* true exactly when the node right before it is a line comment that is
\* neither a preview directive nor annotation-shaped.
C21_PendingIffDescriptionBefore ==
    (AtNode /\ IsDeclaration(node)) =>
        (previous_was_description <=> Described(children, index))

\* C21's case: the walk is at a declaration, a description comment stands two
\* nodes before it, another node stands in between, and the flag is false
C21_Witness ==
    /\ AtNode
    /\ IsDeclaration(node)
    /\ index >= 3
    /\ Described(children, index - 1)
    /\ children[index - 1].type # "line_comment"
    /\ ~previous_was_description

\* the node is a declaration whose assigned name begins with "$"
DollarNamed(n) == IsDeclaration(n) /\ DeclaredName(n)[1] = "$"

\* C22: the step at a declaration whose assigned name begins with "$" adds no
\* diagnostic, leaves found_any_param and every other scan variable as they
\* are, and clears the pending description.
C22_DollarNameSkipped ==
    [][(AtNode /\ DollarNamed(node))
         => /\ result' = result
            /\ found_any_param' = found_any_param
            /\ current_tab' = current_tab
            /\ in_parameter_section' = in_parameter_section
            /\ found_any_tab' = found_any_tab
            /\ param_without_tab_warning_issued' = param_without_tab_warning_issued
            /\ previous_was_description' = FALSE]_vars

\* C23: current_tab is the name in the last tab marker the walk has passed
\* (none before the first) and found_any_tab tells whether it passed one; a
\* node that is no tab marker leaves current_tab alone and found_any_tab never
\* goes back to false; the step at an ordinary-named declaration leaves the
\* result and found_any_param alone when the last tab marker before it is
\* [Hidden], and sets found_any_param otherwise.
C23_CurrentTabIsLastMarker ==
    /\ [](Walking =>
            /\ current_tab = TabBefore(children, index)
            /\ found_any_tab <=> \E h \in 1..(index - 1) : IsTabMarker(children[h]))
    /\ [][(AtNode /\ ~IsTabMarker(node)) => current_tab' = current_tab]_vars
    /\ [][(pc = "walk" /\ found_any_tab) => found_any_tab']_vars
    /\ [][(AtNode /\ OrdinaryNamed(node))
            => IF TabBefore(children, index) = TxtHidden
               THEN result' = result /\ found_any_param' = found_any_param
               ELSE found_any_param']_vars

\* C23's case: [Hidden], a declaration, [Size]: the walk has passed all three,
\* current_tab is "Size", no parameter was found and the result is empty
C23_Witness ==
    /\ Walking
    /\ index = 4
    /\ IsTabMarker(children[1])
    /\ PATTERNS_tab_decl(children[1].text) = TxtHidden
    /\ OrdinaryNamed(children[2])
    /\ IsTabMarker(children[3])
    /\ current_tab = TxtSize
    /\ found_any_tab
    /\ ~found_any_param
    /\ result = LintResult(filepath)

AnnotationTypes ==
    {"none", "slider", "image_surface", "image_array", "draw_polygon", "dropdown",
     "unknown"}

\* one bracket pair around at least one character that is no bracket
BracketFree(a) ==
    /\ Len(a) >= 3
    /\ a[1] = "["
    /\ a[Len(a)] = "]"
    /\ \A i \in 2..(Len(a) - 1) : a[i] \notin {"[", "]"}

MatchesSomePattern(a) ==
    \/ PATTERNS_slider(a)
    \/ PATTERNS_image_surface(a)
    \/ PATTERNS_image_array(a)
    \/ PATTERNS_draw_polygon(a)
    \/ PATTERNS_dropdown(a)

\* a well-formed [keyword:WxH]
WellFormedKeyword(a, keyword) ==
    \E w, h \in {<<"1">>, <<"5">>, <<"2", "0">>} : a = BracketKeyword(keyword, w, h)

\* C24: parse_annotation returns a type and a validity for every input;
\* ('unknown', invalid) exactly when the stripped input starts with "[" and
\* matches none of the five patterns (it is not one bracket pair around
\* bracket-free text); ('none', valid) when the stripped input is empty or
\* does not start with "["; and a well-formed [image_surface:WxH],
\* [image_array:WxH] or [draw_polygon:WxH] gets its keyword type although the
\* dropdown pattern matches it too.
C24_ParseAnnotationCases ==
    ann_result # <<>> =>
        LET a == Strip(ann_input)
        IN /\ ann_result[1] \in AnnotationTypes
           /\ ann_result[2] \in BOOLEAN
           /\ ann_result[2] <=> ann_result[1] # "unknown"
           /\ ann_result[1] = "unknown"
                 <=> (a # <<>> /\ a[1] = "[" /\ ~MatchesSomePattern(a))
           /\ ann_result[1] = "unknown"
                 <=> (a # <<>> /\ a[1] = "[" /\ ~BracketFree(a))
           /\ (a = <<>> \/ a[1] # "[") => ann_result = <<"none", TRUE>>
           /\ WellFormedKeyword(a, KwImageSurface)
                 => ann_result = <<"image_surface", TRUE>> /\ PATTERNS_dropdown(a)
           /\ WellFormedKeyword(a, KwImageArray)
                 => ann_result = <<"image_array", TRUE>> /\ PATTERNS_dropdown(a)
           /\ WellFormedKeyword(a, KwDrawPolygon)
                 => ann_result = <<"draw_polygon", TRUE>> /\ PATTERNS_dropdown(a)

\* C24's case: [image_array:20x5], which the dropdown pattern matches too, was
\* classified image_array
C24_Witness ==
    /\ ann_input = BracketKeyword(KwImageArray, <<"2", "0">>, <<"5">>)
    /\ PATTERNS_dropdown(ann_input)
    /\ ann_result = <<"image_array", TRUE>>

\* the errors at the line of the comment after kids[j]
ErrorsAtComment(kids, j) ==
    {i \in 1..Len(result.errors) : result.errors[i].line = kids[j + 1].row + 1}

\* C25: a qualifying parameter followed by an annotation comment that is
\* classified invalid has exactly one error, which names the parameter and
\* echoes the annotation, and no "has no UI annotation" warning; one followed
\* by a valid annotation comment has no error.
C25_OneErrorPerInvalidAnnotation ==
    Walking =>
        \A j \in 1..Len(children) :
            LET g == TrailingAnnotation(children, j)
            IN (Handled(j) /\ Qualifying(children, j) /\ g # NoMatch) =>
                  IF ~parse_annotation(g)[2]
                  THEN /\ Cardinality(ErrorsAtComment(children, j)) = 1
                       /\ \A i \in ErrorsAtComment(children, j) :
                             /\ result.errors[i].severity = "error"
                             /\ result.errors[i].message =
                                   Message(TplInvalidAnnotation,
                                           DeclaredName(children[j]), g, "")
                       /\ ~HasWarning(children[j].row + 1, TplNoAnnotation,
                                      DeclaredName(children[j]))
                  ELSE ErrorsAtComment(children, j) = {}

\* C25's case: two qualifying parameters have been handled, the first with a
\* valid annotation and no error, the second with an invalid one and its
\* single error
C25_Witness ==
    /\ Walking
    /\ \E j1, j2 \in 1..Len(children) :
          /\ j1 < j2
          /\ Handled(j2)
          /\ Qualifying(children, j1) /\ Qualifying(children, j2)
          /\ TrailingAnnotation(children, j1) # NoMatch
          /\ parse_annotation(TrailingAnnotation(children, j1))[2]
          /\ InvalidTrailing(children, j2)
          /\ ErrorsAtComment(children, j1) = {}
          /\ Cardinality(ErrorsAtComment(children, j2)) = 1
    /\ Len(result.errors) = 1

\* C26: a qualifying parameter has the "has no UI annotation" warning exactly
\* when no annotation comment follows it and its own default value is not
\* computed.
C26_NoAnnotationIffBareAndLiteral ==
    Walking =>
        \A j \in 1..Len(children) :
            (Handled(j) /\ Qualifying(children, j)) =>
                (HasWarning(children[j].row + 1, TplNoAnnotation,
                            DeclaredName(children[j]))
                 <=> /\ TrailingAnnotation(children, j) = NoMatch
                     /\ ~get_value_type(DeclaredValue(children[j]))[2])

\* the elements of a list node: its children but the brackets and commas
ElementsOf(n) == SelectSeq(n.children, LAMBDA c : c.type \notin {"[", ",", "]"})

IsListCall == val_result # <<>> /\ val_input[1].type = "list"

\* C27: a list with a bare identifier among its elements is classified
\* ('list', computed, 'list contains variable reference'), wherever the
\* identifier stands and whatever the other elements are.
C27_ListWithReference ==
    ( /\ IsListCall
      /\ \E i \in 1..Len(ElementsOf(val_input[1])) :
            ElementsOf(val_input[1])[i].type = "identifier" )
    => val_result = <<"list", TRUE, ReasonListReference>>

\* a literal: a number, string or boolean, a negative number, or a list of
\* literals
RECURSIVE LiteralValue(_)
LiteralValue(v) ==
    \/ IsLiteral(v)
    \/ /\ v.type = "unary_expression"
       /\ v.children[1].type = "-"
       /\ v.children[2].type \in {"integer", "float"}
    \/ /\ v.type = "list"
       /\ \A i \in 1..Len(ElementsOf(v)) : LiteralValue(ElementsOf(v)[i])

\* C28: a list is reported as not computed only when every element is a
\* literal.
C28_ListNotComputedOnlyIfLiteral ==
    (IsListCall /\ ~val_result[2]) =>
        \A i \in 1..Len(ElementsOf(val_input[1])) :
            LiteralValue(ElementsOf(val_input[1])[i])

\* C29: a unary minus applied to an integer or float literal is
\* ('number', not computed); every other unary expression is
\* ('expression', computed).
C29_UnaryMinusLiteralOnly ==
    (val_result # <<>> /\ val_input[1].type = "unary_expression") =>
        IF /\ val_input[1].children[1].type = "-"
           /\ val_input[1].children[2].type \in {"integer", "float"}
        THEN val_result[1] = "number" /\ ~val_result[2]
        ELSE val_result[1] = "expression" /\ val_result[2]

NonDecreasing(diags) ==
    \A i \in 1..(Len(diags) - 1) : diags[i].line <= diags[i + 1].line

IsPrefix(a, b) == Len(a) <= Len(b) /\ \A i \in 1..Len(a) : a[i] = b[i]

\* C30: the line numbers in errors and in warnings are non-decreasing, in the
\* result being built and in every result returned, and a step of a call only
\* appends to the two lists.
C30_DetectionOrder ==
    /\ [](/\ NonDecreasing(result.errors)
          /\ NonDecreasing(result.warnings)
          /\ \A k \in 1..Len(all_results) :
                /\ NonDecreasing(all_results[k].errors)
                /\ NonDecreasing(all_results[k].warnings))
    /\ [][(pc \in {"start", "walk"})
            => (IsPrefix(result.errors, result'.errors)
                /\ IsPrefix(result.warnings, result'.warnings))]_vars

\* C30's case: a result with errors on two lines and warnings on two lines
C30_Witness ==
    /\ Walking
    /\ Len(result.errors) >= 2
    /\ result.errors[1].line < result.errors[Len(result.errors)].line
    /\ Len(result.warnings) >= 2
    /\ result.warnings[1].line < result.warnings[Len(result.warnings)].line

(***************************************************************************)
(* main linting two files in one run (lines 407-409), each file of up to   *)
(* MaxPairLines lines: two walks whose parameters can be compared.         *)
(***************************************************************************)
PairLines ==
    { <<BlockComment(CmtTabSize)>>,
      <<LineComment(CmtDescription)>>,
      <<ModuleItem>>,
      <<OtherItem>>,
      <<VarDeclaration(Radius, Five)>>,
      <<VarDeclaration(Radius, TenTimesScale)>>,
      <<VarDeclaration(Radius, Scale)>> }

PairContents ==
    { Readable(l) : l \in SeqsUpTo(PairLines, MaxPairLines) } \cup {Unreadable}

InitPair ==
    /\ fs \in [{PathA, PathB} -> PairContents]
    /\ paths = <<PathA, PathB>>
    /\ all_results = <<>>
    /\ pc = "idle"
    /\ filepath = PathA
    /\ result = LintResult(PathA)
    /\ FreshFrame
    /\ NoClassifierCall
    /\ NoCli
    /\ NoTool

SpecPair == InitPair /\ [][Next]_vars

\* the scan state in which the walk reaches kids[j], read off the tree:
\* found_any_tab
TabSeen(kids, j) == \E h \in 1..(j - 1) : IsTabMarker(kids[h])
\* param_without_tab_warning_issued
TabWarned(kids, j) ==
    \E h \in 1..(j - 1) : Qualifying(kids, h) /\ ~TabSeen(kids, h)

\* kids1[j1] and kids2[j2] are qualifying parameters with the same name and
\* default value, the same annotation in the next sibling, reached with
\* the same parameter-section flag, tab-seen flag, tab-warning flag and
\* pending description
SameSituation(kids1, j1, kids2, j2) ==
    /\ Qualifying(kids1, j1)
    /\ Qualifying(kids2, j2)
    /\ DeclaredName(kids1[j1]) = DeclaredName(kids2[j2])
    /\ DeclaredValue(kids1[j1]) = DeclaredValue(kids2[j2])
    /\ TrailingAnnotation(kids1, j1) = TrailingAnnotation(kids2, j2)
    /\ CallableBefore(kids1, j1) = CallableBefore(kids2, j2)
    /\ TabSeen(kids1, j1) = TabSeen(kids2, j2)
    /\ TabWarned(kids1, j1) = TabWarned(kids2, j2)
    /\ Described(kids1, j1) = Described(kids2, j2)

\* the messages of the diagnostics at line ln, in order
MessagesAt(diags, ln) ==
    LET at == SelectSeq(diags, LAMBDA d : d.line = ln)
    IN  [i \in 1..Len(at) |-> <<at[i].message, at[i].severity>>]

\* what a result holds for the parameter kids[j]
EmittedFor(r, kids, j) ==
    <<MessagesAt(r.errors, kids[j].row + 1), MessagesAt(r.warnings, kids[j].row + 1)>>

\* C31: two qualifying parameters with the same name, default value and
\* next sibling comment, reached in the same scan state, get the same
\* diagnostics, whatever parameters stand before them in their files.
C31_OwnInputsOnly ==
    \A k1, k2 \in 1..Len(all_results) :
        (fs[paths[k1]].readable /\ fs[paths[k2]].readable)
        => \A j1 \in 1..Len(Tree(k1)), j2 \in 1..Len(Tree(k2)) :
              SameSituation(Tree(k1), j1, Tree(k2), j2)
              => EmittedFor(all_results[k1], Tree(k1), j1)
                 = EmittedFor(all_results[k2], Tree(k2), j2)

\* C32: when an entry point has linted every file and exits, under any
\* options, the exit code is nonzero exactly when the failed count of the
\* summary is at least one.
C32_ExitAgreesWithSummary ==
    ExitedAfterAll => ((exit_code # <<0>>) <=> (failed >= 1))

(***************************************************************************)
(* find_scad_files (scad_tools.py lines 281-313) applied alone.  A path is *)
(* the sequence of its parts below base_path, each part a text; Path       *)
(* objects compare part by part, parts compare by code point.              *)
(***************************************************************************)
TxtDotScad == <<".","s","c","a","d">>

\* lines 39-45
EXCLUDE_SUFFIXES ==
    [test |-> <<"_","t","e","s","t">> \o TxtDotScad,
     constants |-> <<"_","c","o","n","s","t","a","n","t","s">> \o TxtDotScad,
     reference |-> <<"_","r","e","f","e","r","e","n","c","e">> \o TxtDotScad,
     lib |-> <<"_","l","i","b">> \o TxtDotScad]

\* the characters of the file names, by increasing code point
CharsInOrder ==
    <<".", "_", "a", "b", "c", "d", "e", "f", "i", "l", "n", "o", "r", "s", "t">>
Ord(c) == CHOOSE i \in 1..Len(CharsInOrder) : CharsInOrder[i] = c

\* str.__lt__
RECURSIVE StrLess(_, _)
StrLess(s, t) ==
    IF t = <<>> THEN FALSE
    ELSE IF s = <<>> THEN TRUE
    ELSE IF s[1] # t[1] THEN Ord(s[1]) < Ord(t[1])
    ELSE StrLess(Tail(s), Tail(t))

\* Path.__lt__: the parts compared as sequences
RECURSIVE PathLess(_, _)
PathLess(p, q) ==
    IF q = <<>> THEN FALSE
    ELSE IF p = <<>> THEN TRUE
    ELSE IF p[1] # q[1] THEN StrLess(p[1], q[1])
    ELSE PathLess(Tail(p), Tail(q))

\* sorted(): insert f into a sorted list, after the elements not greater
RECURSIVE Insert(_, _)
Insert(f, fs_sorted) ==
    IF fs_sorted = <<>> THEN <<f>>
    ELSE IF PathLess(f, fs_sorted[1]) THEN <<f>> \o fs_sorted
    ELSE <<fs_sorted[1]>> \o Insert(f, Tail(fs_sorted))

RECURSIVE sorted(_)
sorted(files) ==
    IF files = <<>> THEN <<>>
    ELSE Insert(files[Len(files)], sorted(SubSeq(files, 1, Len(files) - 1)))

\* f.name
Name(f) == f[Len(f)]

\* str.endswith
EndsWith(s, suffix) == HasAt(s, Len(s) - Len(suffix) + 1, suffix)

\* lines 299-311: the loop body does not `continue`
Kept(f, fl) ==
    /\ ~(EndsWith(Name(f), EXCLUDE_SUFFIXES.test) /\ ~fl.include_tests)
    /\ ~(EndsWith(Name(f), EXCLUDE_SUFFIXES.lib) /\ ~fl.include_libs)
    /\ ~(EndsWith(Name(f), EXCLUDE_SUFFIXES.constants) /\ ~fl.include_constants)
    /\ ~(EndsWith(Name(f), EXCLUDE_SUFFIXES.reference) /\ ~fl.include_reference)

find_scad_files_TestsAmongKept(found_files, fl) ==
    LET all_files == sorted(found_files)
        kept == SelectSeq(all_files, LAMBDA f : Kept(f, fl))
    IN  IF fl.only_tests
        THEN SelectSeq(kept, LAMBDA f : EndsWith(Name(f), EXCLUDE_SUFFIXES.test))
        ELSE kept

\* lines 295-313; found_files is what rglob yields
find_scad_files(found_files, fl) ==
    LET all_files == sorted(found_files)
    IN  IF fl.only_tests
        THEN SelectSeq(all_files, LAMBDA f : EndsWith(Name(f), EXCLUDE_SUFFIXES.test))
        ELSE SelectSeq(all_files, LAMBDA f : Kept(f, fl))

\* the .scad files that may lie below base_path
ScadPaths ==
    { << <<"a">> \o TxtDotScad >>,
      << <<"a">> \o EXCLUDE_SUFFIXES.test >>,
      << <<"a">> \o EXCLUDE_SUFFIXES.lib >>,
      << <<"a">> \o EXCLUDE_SUFFIXES.constants >>,
      << <<"a">> \o EXCLUDE_SUFFIXES.reference >>,
      << <<"a","_","t","e","s","t">> \o EXCLUDE_SUFFIXES.lib >>,
      << <<"t","e","s","t">> \o TxtDotScad >>,
      << <<"a">>, <<"b">> \o EXCLUDE_SUFFIXES.test >> }

Range(s) == { s[i] : i \in 1..Len(s) }

\* rglob yields every file once, in no particular order
RglobOrders ==
    { s \in SeqsUpTo(ScadPaths, MaxFiles) : Cardinality(Range(s)) = Len(s) }

InitFind ==
    /\ rglob \in RglobOrders
    /\ flags \in [include_tests : BOOLEAN, include_libs : BOOLEAN,
                  include_constants : BOOLEAN, include_reference : BOOLEAN,
                  only_tests : BOOLEAN]
    /\ found = <<>>
    /\ fs = <<>>
    /\ paths = <<>>
    /\ all_results = <<>>
    /\ pc = "idle"
    /\ filepath = PathA
    /\ result = LintResult(PathA)
    /\ FreshFrame
    /\ NoClassifierCall
    /\ NoCli
    /\ NoRender

FindScadFiles ==
    /\ found = <<>>
    /\ found' = <<find_scad_files(rglob, flags)>>
    /\ UNCHANGED <<rglob, flags>>
    /\ UNCHANGED <<fs, paths, all_results, pc, filepath, result, children, index, scan>>
    /\ UNCHANGED classifier_vars
    /\ UNCHANGED cli_vars
    /\ UNCHANGED render_vars

NextFind == FindScadFiles

SpecFind == InitFind /\ [][NextFind]_vars

\* the name of f ends with "_" word ".scad"
Suffixed(f, word) == EndsWith(Name(f), <<"_">> \o word \o <<".","s","c","a","d">>)

WordTest == <<"t","e","s","t">>
WordLib == <<"l","i","b">>
WordConstants == <<"c","o","n","s","t","a","n","t","s">>
WordReference == <<"r","e","f","e","r","e","n","c","e">>

\* f is in no category, or the flag of its category is set
Admitted(f, fl) ==
    /\ Suffixed(f, WordTest) => fl.include_tests
    /\ Suffixed(f, WordLib) => fl.include_libs
    /\ Suffixed(f, WordConstants) => fl.include_constants
    /\ Suffixed(f, WordReference) => fl.include_reference

\* C33: without only_tests the result holds exactly the files that are in
\* no category or in a category whose include flag is set (none of the four
\* categories by default); with only_tests it holds exactly the files ending
\* in _test.scad, whatever the include flags; it is always in increasing
\* path order.
C33_FindScadFiles ==
    found # <<>> =>
        LET files == found[1]
        IN  /\ flags.only_tests =>
                Range(files) = { f \in Range(rglob) : Suffixed(f, WordTest) }
            /\ ~flags.only_tests =>
                Range(files) = { f \in Range(rglob) : Admitted(f, flags) }
            /\ \A i, j \in 1..Len(files) : i < j => PathLess(files[i], files[j])

\* C33's case: three files found out of order, two of them tests (one in a
\* sub-directory) and one a library; only_tests with include_libs set and
\* include_tests not set returned the two tests, sorted
C33_Witness ==
    /\ found # <<>>
    /\ flags.only_tests /\ flags.include_libs /\ ~flags.include_tests
    /\ Len(rglob) = 3
    /\ PathLess(rglob[3], rglob[1])
    /\ \E i \in 1..3 : Suffixed(rglob[i], WordLib)
    /\ Len(found[1]) = 2
    /\ Len(found[1][1]) = 2
    /\ \A i \in 1..2 : Suffixed(found[1][i], WordTest)

(***************************************************************************)
(* render_single_model (scad_tools.py lines 420-522) for one model.  The   *)
(* output directory and the artifact are sets of the model's two files,    *)
(* "stl" for <out_name>.stl and "png" for <out_name>.png.  The registry,   *)
(* the OpenSCAD runs and the network are the environment: every outcome    *)
(* they can produce is a choice of the step that calls them.               *)
(***************************************************************************)
ModelFiles == {"stl", "png"}

\* get_cache_config (lines 115-134): None, or a configuration
CacheConfigs ==
    { <<>> } \cup { <<[is_main_branch |-> b]>> : b \in BOOLEAN }

\* what the registry may hold under the model's content tag before the call
Artifacts == { <<>> } \cup { <<files>> : files \in SUBSET ModelFiles }

InitRender ==
    /\ cache_config \in CacheConfigs
    /\ remote \in { [NoArtifacts EXCEPT !["content"] = a] : a \in Artifacts }
    /\ out_files \in SUBSET ModelFiles
    /\ render_pc = "called"
    /\ stl_run = <<>>
    /\ pushed = <<>>
    /\ returned = <<>>
    /\ fs = <<>>
    /\ paths = <<>>
    /\ all_results = <<>>
    /\ pc = "idle"
    /\ filepath = PathA
    /\ result = LintResult(PathA)
    /\ FreshFrame
    /\ NoClassifierCall
    /\ NoCli
    /\ NoFind

\* lines 446, 460-471: oras_pull returned True; what the artifact holds of
\* the model's two files is copied to the output directory
CacheHit ==
    /\ render_pc = "called"
    /\ cache_config # <<>>
    /\ remote["content"] # <<>>
    /\ out_files' = out_files \cup remote["content"][1]
    /\ returned' = <<TRUE>>
    /\ render_pc' = "returned"
    /\ UNCHANGED <<cache_config, remote, stl_run, pushed>>
    /\ UNCHANGED <<fs, paths, all_results, pc, filepath, result, children, index, scan>>
    /\ UNCHANGED classifier_vars
    /\ UNCHANGED cli_vars
    /\ UNCHANGED find_vars

\* lines 446, 462, 473: oras_pull returned False (no artifact under the
\* tag, or the pull raised, lines 239-243)
CacheMiss ==
    /\ render_pc = "called"
    /\ cache_config # <<>>
    /\ render_pc' = "miss"
    /\ UNCHANGED <<cache_config, remote, out_files, stl_run, pushed, returned>>
    /\ UNCHANGED <<fs, paths, all_results, pc, filepath, result, children, index, scan>>
    /\ UNCHANGED classifier_vars
    /\ UNCHANGED cli_vars
    /\ UNCHANGED find_vars

\* the outcomes of an OpenSCAD run: its exit status, and whether it wrote
\* the file named by -o
Runs == [returncode : {0, 1}, wrote : BOOLEAN]

\* lines 475-480: the STL render; a nonzero exit status returns False
RenderStl ==
    /\ \/ render_pc = "miss"
       \/ render_pc = "called" /\ cache_config = <<>>
    /\ \E run \in Runs :
          /\ stl_run' = <<run>>
          /\ out_files' = IF run.wrote THEN out_files \cup {"stl"} ELSE out_files
          /\ IF run.returncode # 0
             THEN /\ returned' = <<FALSE>>
                  /\ render_pc' = "returned"
             ELSE /\ returned' = returned
                  /\ render_pc' = "png"
    /\ UNCHANGED <<cache_config, remote, pushed>>
    /\ UNCHANGED <<fs, paths, all_results, pc, filepath, result, children, index, scan>>
    /\ UNCHANGED classifier_vars
    /\ UNCHANGED cli_vars
    /\ UNCHANGED find_vars

\* lines 482-499, 522: the preview render, whose exit status only prints a
\* notice; without a cache, or without the STL file, True is returned
RenderPng ==
    /\ render_pc = "png"
    /\ \E run \in Runs :
          out_files' = IF run.wrote THEN out_files \cup {"png"} ELSE out_files
    /\ IF cache_config # <<>> /\ "stl" \in out_files
       THEN /\ render_pc' = "push"
            /\ returned' = returned
       ELSE /\ render_pc' = "returned"
            /\ returned' = <<TRUE>>
    /\ UNCHANGED <<cache_config, remote, stl_run, pushed>>
    /\ UNCHANGED <<fs, paths, all_results, pc, filepath, result, children, index, scan>>
    /\ UNCHANGED classifier_vars
    /\ UNCHANGED cli_vars
    /\ UNCHANGED find_vars

\* lines 499-522: the files present are pushed under the content tag and,
\* on the main branch, under latest; oras_push may fail (lines 275-278)
PushCache ==
    /\ render_pc = "push"
    /\ LET push_files == {"stl"} \cup (out_files \cap {"png"})
           latest == cache_config[1].is_main_branch
       IN  \E ok_content \in BOOLEAN, ok_latest \in BOOLEAN :
              /\ remote' =
                    [tag \in {"content", "latest"} |->
                        IF \/ tag = "content" /\ ok_content
                           \/ tag = "latest" /\ latest /\ ok_latest
                        THEN <<push_files>>
                        ELSE remote[tag]]
              /\ pushed' = pushed \o <<"content">>
                                  \o (IF latest THEN <<"latest">> ELSE <<>>)
    /\ returned' = <<TRUE>>
    /\ render_pc' = "returned"
    /\ UNCHANGED <<cache_config, out_files, stl_run>>
    /\ UNCHANGED <<fs, paths, all_results, pc, filepath, result, children, index, scan>>
    /\ UNCHANGED classifier_vars
    /\ UNCHANGED cli_vars
    /\ UNCHANGED find_vars

NextRender ==
    \/ CacheHit
    \/ CacheMiss
    \/ RenderStl
    \/ RenderPng
    \/ PushCache

SpecRender == InitRender /\ [][NextRender]_vars

\* the OpenSCAD run for the STL, if there was one, exited zero without
\* writing the file
ZeroExitWroteNothing ==
    stl_run # <<>> /\ stl_run[1].returncode = 0 /\ ~stl_run[1].wrote

StlRenderFailed == stl_run # <<>> /\ stl_run[1].returncode # 0

\* C34, first part: True is returned only with the STL file in the output
\* directory, after a cache hit as after a render (a zero-exit render that
\* wrote no file aside).
C34_TrueOnlyWithStl ==
    (returned = <<TRUE>> /\ ~ZeroExitWroteNothing) => "stl" \in out_files

\* C34, second part: after a failed STL render False is returned and no
\* oras_push call is made.
C34_FailedStlReturnsFalse ==
    StlRenderFailed => (returned = <<FALSE>> /\ pushed = <<>>)

\* C34, third part: from the preview render on, whatever its outcome, False
\* is never returned.
C34_PreviewNeverFails ==
    [][(render_pc \in {"png", "push"}) => (returned' # <<FALSE>>)]_vars

====
